---------------------------- MODULE Spec2Model ----------------------------
(***************************************************************************)
(* A model of the meshapp core (rust/src): the store-and-forward router   *)
(* (transport.rs), the message log (storage.rs) and the orchestrator's    *)
(* entry points that bind them (lib.rs).                                   *)
(*                                                                         *)
(* 32-byte values are represented by small structured values:             *)
(*   - an Ed25519 public key is a natural number; the byte-lexicographic  *)
(*     order of the keys is the order of the numbers;                     *)
(*   - a channel id is a pair <<lo, hi>>: the SHA-256 preimage            *)
(*     min(pubA, pubB) || max(pubA, pubB) for a DM channel, <<0, g>> for  *)
(*     any other 32-byte value the host passes;                           *)
(*   - a packet id / message id is a 4-tuple: <<0, 0, 0, n>> for a value  *)
(*     drawn at random or chosen by the host, <<lo, hi, ts, pt>> for the  *)
(*     SHA-256 of channel_id || timestamp || plaintext.                   *)
(* SHA-256 is taken to be collision free (a digest is represented by its  *)
(* preimage).                                                              *)
(***************************************************************************)
EXTENDS Integers, Naturals, Sequences, FiniteSets, TLC

(***************************************************************************)
(* Bounds of the model.                                                    *)
(***************************************************************************)
NumTransports == 2
NumRandomIds == 2
NumChannels == 2
NumPayloads == 2
MaxTtl == 2
NumThreads == 2
MaxTime == 1
MaxRows == 3
NumKeys == 2
NumEphemerals == 2
NumNicknames == 1
MaxTextLen == 5
NumNodes == 3
MaxInits == 2

U8 == 256

(***************************************************************************)
(* Packet (transport.rs): packet_id, channel_id, ttl, payload.             *)
(***************************************************************************)
RandomIds == {<<0, 0, 0, n>> : n \in 1..NumRandomIds}
HostChannels == {<<0, g>> : g \in 1..NumChannels}
HostPayloads == {[key |-> <<0, 0, 0>>, nonce |-> <<0, 0, 0, 0>>, pt |-> x] : x \in 1..NumPayloads}
Ttls == 0..MaxTtl

Packet(id, ch, t, p) ==
  [packet_id |-> id, channel_id |-> ch, ttl |-> t, payload |-> p]

TransportIds == 1..NumTransports

(***************************************************************************)
(* Router::route.  The observable effects of one call are returned as a    *)
(* sequence of events in the order the code produces them: the on_new      *)
(* callback (transport 0) and the Transport::send calls.                   *)
(***************************************************************************)
OnNewEvent(packet) ==
  [kind |-> "on_new", transport |-> 0, packet |-> packet, ok |-> TRUE]

SendEvent(i, packet, ok) ==
  [kind |-> "send", transport |-> i, packet |-> packet, ok |-> ok]

\* HashSet::insert: the new set, and whether the value was newly inserted.
SeenInsertNoDedup(seenSet, id) ==
  [set |-> seenSet \cup {id}, inserted |-> TRUE]

SeenInsert(seenSet, id) ==
  [set |-> seenSet \cup {id}, inserted |-> id \notin seenSet]

\* packet.ttl -= 1 on a u8.
KeepTtl(packet) == packet

DecrementTtl(packet) ==
  [packet EXCEPT !.ttl = (packet.ttl + U8 - 1) % U8]

\* if packet.ttl == 0 { return; }
TtlExhaustedNever(packet) == FALSE

TtlExhausted(packet) == packet.ttl = 0

\* for transport in &self.transports { if is_available() { let _ = send() } }
\* avail[i] is what transports[i].is_available() returns, sendOk[i] whether
\* transports[i].send() returns Ok.
RECURSIVE ForwardFrom(_, _, _, _)
ForwardFrom(i, packet, avail, sendOk) ==
  IF i > Len(avail) THEN <<>>
  ELSE IF avail[i]
       THEN <<SendEvent(i, packet, sendOk[i])>> \o ForwardFrom(i + 1, packet, avail, sendOk)
       ELSE ForwardFrom(i + 1, packet, avail, sendOk)

RECURSIVE ForwardFromAbortOnError(_, _, _, _)
ForwardFromAbortOnError(i, packet, avail, sendOk) ==
  IF i > Len(avail) THEN <<>>
  ELSE IF avail[i]
       THEN IF sendOk[i]
            THEN <<SendEvent(i, packet, TRUE)>>
                   \o ForwardFromAbortOnError(i + 1, packet, avail, sendOk)
            ELSE <<SendEvent(i, packet, FALSE)>>
       ELSE ForwardFromAbortOnError(i + 1, packet, avail, sendOk)

ForwardAllIgnoringAvailability(packet, avail, sendOk) ==
  ForwardFrom(1, packet, [i \in 1..Len(avail) |-> TRUE], sendOk)

ForwardAllAbortOnError(packet, avail, sendOk) ==
  ForwardFromAbortOnError(1, packet, avail, sendOk)

ForwardAll(packet, avail, sendOk) == ForwardFrom(1, packet, avail, sendOk)

RouteForwardFirst(seenSet, packet, avail, sendOk) ==
  LET ins == SeenInsert(seenSet, packet.packet_id)
  IN  IF ~ins.inserted
      THEN [seen |-> seenSet, events |-> <<>>]
      ELSE IF TtlExhausted(packet)
           THEN [seen |-> ins.set, events |-> <<OnNewEvent(packet)>>]
           ELSE [seen |-> ins.set,
                 events |-> ForwardAll(DecrementTtl(packet), avail, sendOk)
                              \o <<OnNewEvent(DecrementTtl(packet))>>]

Route(seenSet, packet, avail, sendOk) ==
  LET ins == SeenInsert(seenSet, packet.packet_id)
  IN  IF ~ins.inserted
      THEN [seen |-> seenSet, events |-> <<>>]
      ELSE IF TtlExhausted(packet)
           THEN [seen |-> ins.set, events |-> <<OnNewEvent(packet)>>]
           ELSE [seen |-> ins.set,
                 events |-> <<OnNewEvent(packet)>>
                              \o ForwardAll(DecrementTtl(packet), avail, sendOk)]

OnNewCalls(events) == SelectSeq(events, LAMBDA e : e.kind = "on_new")
SendCalls(events) == SelectSeq(events, LAMBDA e : e.kind = "send")

(***************************************************************************)
(* State.                                                                  *)
(*   rt*: one Router with NumTransports transports behind the Transport    *)
(*        trait, driven by a caller that counts its on_new callbacks.      *)
(*   cr*: one Router shared by NumThreads threads, each making one call of *)
(*        route; a step is one access to shared state (the seen mutex,     *)
(*        the seen-set, the callback, a transport).  crOnNew and crSends   *)
(*        count the callbacks and the sends of each call.                  *)
(*   st*: one Storage (the messages table of mesh.db) driven through its   *)
(*        methods; stFirst remembers, for every message_id, the fields of  *)
(*        its first insertion since the row was last deleted.              *)
(*   the process-wide singletons of lib.rs, driven through the entry       *)
(*   points one call at a time:                                            *)
(*     identityFile  the key held by identity.json (0: no file)            *)
(*     IDENTITY      the Ed25519 public key of the loaded identity (0:     *)
(*                   None)                                                 *)
(*     friendsInit, friends    FRIENDS is Some, and the Ed25519 public     *)
(*                   keys of the registered friends                        *)
(*     storageInit, messages   STORAGE is Some, and the messages table of  *)
(*                   mesh.db                                               *)
(*     routerInit, seen        ROUTER is Some, and its seen-set            *)
(*     loopback      the packets held by the LoopbackTransport of LOOPBACK *)
(*     last          the last call: its arguments and what it returned     *)
(*   lk*: NumThreads threads calling the entry points of lib.rs, a step    *)
(*        being one acquisition or release of a singleton mutex:           *)
(*     lkOwner       the thread holding each mutex (0: free)               *)
(*     lkOp, lkPc    the entry point each thread is in, and its position   *)
(*     lkHeld        the mutexes each thread holds, in acquisition order   *)
(*     lkInstance    the LoopbackTransport held by LOOPBACK, and the one   *)
(*                   the Router held by ROUTER forwards to (0: None)       *)
(*     lkMine        the LoopbackTransport each thread's call of           *)
(*                   init_router_with_loopback made                        *)
(*     lkCreated     the number of LoopbackTransports made so far          *)
(*   cyLast: the last call of a function of dm_crypto.rs, or of            *)
(*        test_dm_encrypt_decrypt, with its arguments and results          *)
(*   fr*: the friend registry of friends.rs behind the FFI of lib.rs:      *)
(*     frFriends     FriendsStorage.friends, the records by their map key  *)
(*     frLast        the last call: its entry point, the identifier it     *)
(*                   decoded and whether it succeeded                      *)
(*   id*: init_identity (lib.rs) over Identity::load_or_generate           *)
(*        (identity.rs), a step being one call of the file system:         *)
(*     idFinal, idTmp   the inode at identity.json and at identity.tmp     *)
(*                      (0: no such file)                                  *)
(*     idInodes         the content and the mode of each inode             *)
(*     idMem            IDENTITY: the keys in memory (NoKeys: None)        *)
(*     idPc, idKeys, idFd  each thread's position, the keys it generated   *)
(*                      or loaded, and the inode of its open file          *)
(*     idResult         what the last init_identity returned (1: none yet) *)
(*     idUserId         what the last get_user_id returned (-1: none yet)  *)
(*     idModified       identity.json was changed from outside the core    *)
(*   mnLast: the last call of extract_mentions (mentions.rs), with its     *)
(*        arguments and its result                                         *)
(*   ms*: NumNodes devices, each with its own Router, whose transports     *)
(*        carry the packets they are sent to other devices:                *)
(*     msEdges       the links: <<a, b>> when the transport of a towards b *)
(*                   is available                                          *)
(*     msSeen        the seen-set of each device's router                  *)
(*     msInFlight    the copies sent and not yet received                  *)
(*     msOnNew, msHandled  the on_new callbacks and the route calls of     *)
(*                   each device                                           *)
(*     msOrigin      the device that originated the packet and the ttl it  *)
(*                   gave it (node 0: none yet)                            *)
(***************************************************************************)
VARIABLES rtSeen, rtOnNewCount, rtPresented, rtLast,
          crSeen, crSeenOwner, crPc, crPacket, crInserted, crIdx, crOnNew, crSends,
          stRows, stFirst, stLast,
          identityFile, IDENTITY, friendsInit, friends, storageInit, messages,
          routerInit, seen, loopback, last,
          lkOwner, lkOp, lkPc, lkHeld, lkInstance, lkMine, lkCreated,
          cyLast,
          frFriends, frLast,
          idFinal, idTmp, idInodes, idMem, idPc, idKeys, idFd, idResult, idUserId,
          idModified,
          mnLast,
          msEdges, msSeen, msInFlight, msOnNew, msHandled, msOrigin

rtVars == <<rtSeen, rtOnNewCount, rtPresented, rtLast>>
crVars == <<crSeen, crSeenOwner, crPc, crPacket, crInserted, crIdx, crOnNew, crSends>>
stVars == <<stRows, stFirst, stLast>>
coreVars == <<identityFile, IDENTITY, friendsInit, friends, storageInit, messages,
              routerInit, seen, loopback, last>>
lkVars == <<lkOwner, lkOp, lkPc, lkHeld, lkInstance, lkMine, lkCreated>>
cyVars == <<cyLast>>
frVars == <<frFriends, frLast>>
idVars == <<idFinal, idTmp, idInodes, idMem, idPc, idKeys, idFd, idResult, idUserId,
            idModified>>
mnVars == <<mnLast>>
msVars == <<msEdges, msSeen, msInFlight, msOnNew, msHandled, msOrigin>>
vars == <<rtVars, crVars, stVars, coreVars, lkVars, cyVars, frVars, idVars, mnVars, msVars>>

\* What the steps of one part of the model leave alone.
rtOthers == <<crVars, stVars, coreVars, lkVars, cyVars, frVars, idVars, mnVars, msVars>>
crOthers == <<rtVars, stVars, coreVars, lkVars, cyVars, frVars, idVars, mnVars, msVars>>
stOthers == <<rtVars, crVars, coreVars, lkVars, cyVars, frVars, idVars, mnVars, msVars>>
coreOthers == <<rtVars, crVars, stVars, lkVars, cyVars, frVars, idVars, mnVars, msVars>>
lkOthers == <<rtVars, crVars, stVars, identityFile, IDENTITY, friendsInit, friends,
              storageInit, messages, seen, loopback, last, cyVars, frVars, idVars,
              mnVars, msVars>>
cyOthers == <<rtVars, crVars, stVars, coreVars, lkVars, frVars, idVars, mnVars, msVars>>
frOthers == <<rtVars, crVars, stVars, coreVars, lkVars, cyVars, idVars, mnVars, msVars>>
idOthers == <<rtVars, crVars, stVars, coreVars, lkVars, cyVars, frVars, mnVars, msVars>>
mnOthers == <<rtVars, crVars, stVars, coreVars, lkVars, cyVars, frVars, idVars, msVars>>
msOthers == <<rtVars, crVars, stVars, coreVars, lkVars, cyVars, frVars, idVars, mnVars>>

NoCall == [op |-> "none"]

\* Router::new(transports): an empty seen-set.
RtInit ==
  /\ rtSeen = {}
  /\ rtOnNewCount = [id \in RandomIds |-> 0]
  /\ rtPresented = {}
  /\ rtLast = NoCall

\* One call router.route(packet, on_new), with the answers of the transports.
RtRoute(packet, avail, sendOk) ==
  LET r == Route(rtSeen, packet, avail, sendOk)
  IN  /\ rtSeen' = r.seen
      /\ rtOnNewCount' =
           [rtOnNewCount EXCEPT ![packet.packet_id] = @ + Len(OnNewCalls(r.events))]
      /\ rtPresented' = rtPresented \cup {packet.packet_id}
      /\ rtLast' = [op |-> "route", packet |-> packet, avail |-> avail,
                    sendOk |-> sendOk, events |-> r.events,
                    first |-> packet.packet_id \notin rtPresented]
      /\ UNCHANGED rtOthers

\* The answers the transports can give: send is only called on, and so only
\* answers for, an available transport.
TransportAnswers ==
  {a \in [TransportIds -> [avail : BOOLEAN, sendOk : BOOLEAN]] :
     \A i \in TransportIds : ~a[i].avail => a[i].sendOk}

\* The packets presented to the router: every id with every ttl, in each
\* channel with one of the payloads.
RtPayloadOf(ch) ==
  CHOOSE p \in HostPayloads : p.pt = (ch[2] % NumPayloads) + 1

RtNext ==
  \E id \in RandomIds, ch \in HostChannels, ttl \in Ttls, a \in TransportAnswers :
    RtRoute(Packet(id, ch, ttl, RtPayloadOf(ch)),
            [i \in TransportIds |-> a[i].avail], [i \in TransportIds |-> a[i].sendOk])

(***************************************************************************)
(* Router::route called from several threads on one &Router.               *)
(***************************************************************************)
Threads == 1..NumThreads
NoThread == 0

CrInit ==
  /\ crSeen = {}
  /\ crSeenOwner = NoThread
  /\ crPc = [t \in Threads |-> "idle"]
  /\ crPacket = [t \in Threads |-> Packet(<<0, 0, 0, 0>>, <<0, 0>>, 0, RtPayloadOf(<<0, 0>>))]
  /\ crInserted = [t \in Threads |-> FALSE]
  /\ crIdx = [t \in Threads |-> 0]
  /\ crOnNew = [t \in Threads |-> 0]
  /\ crSends = [t \in Threads |-> 0]

\* Thread t enters route(packet, on_new).
CrCall(t, packet) ==
  /\ crPc[t] = "idle"
  /\ crPacket' = [crPacket EXCEPT ![t] = packet]
  /\ crPc' = [crPc EXCEPT ![t] = "lock"]
  /\ UNCHANGED <<crSeen, crSeenOwner, crInserted, crIdx, crOnNew, crSends>>
  /\ UNCHANGED crOthers

\* self.seen.lock(): blocks while another thread holds the mutex.
CanLockSeenUnguarded(t) == TRUE

CanLockSeen(t) == crSeenOwner = NoThread

CrLock(t) ==
  /\ crPc[t] = "lock"
  /\ CanLockSeen(t)
  /\ crSeenOwner' = t
  /\ crPc' = [crPc EXCEPT ![t] = "probe"]
  /\ UNCHANGED <<crSeen, crPacket, crInserted, crIdx, crOnNew, crSends>>
  /\ UNCHANGED crOthers

\* seen.insert(packet.packet_id), first half: look the id up.
CrProbe(t) ==
  /\ crPc[t] = "probe"
  /\ crInserted' = [crInserted EXCEPT ![t] = SeenInsert(crSeen, crPacket[t].packet_id).inserted]
  /\ crPc' = [crPc EXCEPT ![t] = "insert"]
  /\ UNCHANGED <<crSeen, crSeenOwner, crPacket, crIdx, crOnNew, crSends>>
  /\ UNCHANGED crOthers

\* seen.insert, second half: store the id; then the guard is dropped, by the
\* return (already seen) or at the end of the block.
CrInsert(t) ==
  /\ crPc[t] = "insert"
  /\ crSeen' = SeenInsert(crSeen, crPacket[t].packet_id).set
  /\ crSeenOwner' = NoThread
  /\ crPc' = [crPc EXCEPT ![t] = IF crInserted[t] THEN "on_new" ELSE "done"]
  /\ UNCHANGED <<crPacket, crInserted, crIdx, crOnNew, crSends>>
  /\ UNCHANGED crOthers

\* on_new(&packet); if packet.ttl == 0 { return; } packet.ttl -= 1;
CrOnNew(t) ==
  /\ crPc[t] = "on_new"
  /\ crOnNew' = [crOnNew EXCEPT ![t] = @ + 1]
  /\ IF TtlExhausted(crPacket[t])
     THEN /\ crPc' = [crPc EXCEPT ![t] = "done"]
          /\ UNCHANGED <<crPacket, crIdx>>
     ELSE /\ crPc' = [crPc EXCEPT ![t] = "send"]
          /\ crPacket' = [crPacket EXCEPT ![t] = DecrementTtl(crPacket[t])]
          /\ crIdx' = [crIdx EXCEPT ![t] = 1]
  /\ UNCHANGED <<crSeen, crSeenOwner, crInserted, crSends>>
  /\ UNCHANGED crOthers

\* One iteration of the loop over self.transports.
CrSend(t, available) ==
  /\ crPc[t] = "send"
  /\ IF crIdx[t] > NumTransports
     THEN /\ crPc' = [crPc EXCEPT ![t] = "done"]
          /\ UNCHANGED <<crIdx, crSends>>
     ELSE /\ crIdx' = [crIdx EXCEPT ![t] = @ + 1]
          /\ crSends' = [crSends EXCEPT ![t] = IF available THEN @ + 1 ELSE @]
          /\ crPc' = crPc
  /\ UNCHANGED <<crSeen, crSeenOwner, crPacket, crInserted, crOnNew>>
  /\ UNCHANGED crOthers

\* The packet thread t routes: any id, its own channel and payload, and a
\* ttl that is exhausted or not.
CrPacketsOf(t) ==
  {Packet(id, <<0, (t % NumChannels) + 1>>, ttl, RtPayloadOf(<<0, (t % NumChannels) + 1>>)) :
     id \in RandomIds, ttl \in {0, 1}}

CrNext ==
  \E t \in Threads :
    \/ \E packet \in CrPacketsOf(t) : CrCall(t, packet)
    \/ CrLock(t)
    \/ CrProbe(t)
    \/ CrInsert(t)
    \/ CrOnNew(t)
    \/ \E available \in BOOLEAN : CrSend(t, available)

(***************************************************************************)
(* Storage (storage.rs): the messages table as the set of its rows.        *)
(***************************************************************************)
Times == 0..MaxTime

MessageRow(id, ch, ciphertext, ts, ttl) ==
  [message_id |-> id, channel_id |-> ch, ciphertext |-> ciphertext,
   timestamp |-> ts, ttl |-> ttl]

HasMessage(rows, id) == \E r \in rows : r.message_id = id

\* INSERT OR IGNORE INTO messages ... : a row whose primary key message_id
\* is already in the table is ignored without an error; ttl is bound as an
\* i64.  The new table, and whether store_message returns Ok.
StoreMessageOrReplace(rows, id, ch, ciphertext, ts, ttl) ==
  [rows |-> {r \in rows : r.message_id # id} \cup {MessageRow(id, ch, ciphertext, ts, ttl)},
   ok |-> TRUE]

StoreMessagePlainInsert(rows, id, ch, ciphertext, ts, ttl) ==
  IF HasMessage(rows, id)
  THEN [rows |-> rows, ok |-> FALSE]
  ELSE [rows |-> rows \cup {MessageRow(id, ch, ciphertext, ts, ttl)}, ok |-> TRUE]

StoreMessage(rows, id, ch, ciphertext, ts, ttl) ==
  IF HasMessage(rows, id)
  THEN [rows |-> rows, ok |-> TRUE]
  ELSE [rows |-> rows \cup {MessageRow(id, ch, ciphertext, ts, ttl)}, ok |-> TRUE]

\* WHERE channel_id = ?1
ChannelRows(rows, ch) == {r \in rows : r.channel_id = ch}

\* ORDER BY timestamp ASC: the order of rows with equal timestamps is not
\* determined by the statement.
IsAnyOrder(rowSeq) == TRUE

IsTimestampAscending(rowSeq) ==
  \A i \in 1..(Len(rowSeq) - 1) : rowSeq[i].timestamp <= rowSeq[i + 1].timestamp

RECURSIVE Orderings(_)
Orderings(rowSet) ==
  IF rowSet = {} THEN {<<>>}
  ELSE UNION {{<<r>> \o rest : rest \in Orderings(rowSet \ {r})} : r \in rowSet}

TimestampOrders(rowSet) == {o \in Orderings(rowSet) : IsTimestampAscending(o)}

\* LIMIT ?2 OFFSET ?3 (both u32 values bound as i64, so never negative).
LimitOffset(rowSeq, limit, offset) ==
  SubSeq(rowSeq, offset + 1,
         IF offset + limit < Len(rowSeq) THEN offset + limit ELSE Len(rowSeq))

\* The MessageRow built from a result row: ttl is read as i64 and cast to u8.
ReadRow(r) == [r EXCEPT !.ttl = r.ttl % U8]

\* Every result fetch_messages(channel_id, limit, offset) can return.
FetchMessages(rows, ch, limit, offset) ==
  {[i \in 1..Len(LimitOffset(o, limit, offset)) |-> ReadRow(LimitOffset(o, limit, offset)[i])] :
     o \in TimestampOrders(ChannelRows(rows, ch))}

\* delete_channel_messages(channel_id): called by lib.rs, not defined in
\* storage.rs; the purge of every row of the channel that the specification
\* describes.
DeleteChannelMessages(rows, ch) == {r \in rows : r.channel_id # ch}

\* The fields a caller stores under an id: any channel and timestamp, with a
\* ciphertext and a ttl that vary with them.
StPayloadOf(ch, ts) ==
  CHOOSE p \in HostPayloads : p.pt = ((ch[2] + ts) % NumPayloads) + 1
StTtlOf(ch, ts) == (ch[2] + 2 * ts) % (MaxTtl + 1)

NoRow == MessageRow(<<0, 0, 0, 0>>, <<0, 0>>, StPayloadOf(<<0, 0>>, 0), -1, 0)

PageArgs == 0..(NumRandomIds + 1)

StInit ==
  /\ stRows = {}
  /\ stFirst = [id \in RandomIds |-> NoRow]
  /\ stLast = NoCall

\* storage.store_message(message_id, channel_id, ciphertext, timestamp, ttl)
StStoreMessage(id, ch, ts) ==
  LET row == MessageRow(id, ch, StPayloadOf(ch, ts), ts, StTtlOf(ch, ts))
      stored == StoreMessage(stRows, id, ch, row.ciphertext, ts, row.ttl)
  IN  /\ stRows' = stored.rows
      /\ stFirst' = IF stFirst[id] = NoRow THEN [stFirst EXCEPT ![id] = row] ELSE stFirst
      /\ stLast' = [op |-> "store_message", message_id |-> id, channel_id |-> ch,
                    limit |-> 0, offset |-> 0, result |-> <<>>, ok |-> stored.ok]
      /\ UNCHANGED stOthers

\* storage.fetch_messages(channel_id, limit, offset)
StFetchMessages(ch, limit, offset) ==
  /\ \E result \in FetchMessages(stRows, ch, limit, offset) :
       stLast' = [op |-> "fetch_messages", message_id |-> <<0, 0, 0, 0>>, channel_id |-> ch,
                  limit |-> limit, offset |-> offset, result |-> result, ok |-> TRUE]
  /\ UNCHANGED <<stRows, stFirst>>
  /\ UNCHANGED stOthers

\* storage.delete_channel_messages(channel_id)
StDeleteChannelMessages(ch) ==
  /\ stRows' = DeleteChannelMessages(stRows, ch)
  /\ stFirst' = [id \in RandomIds |->
                   IF stFirst[id] # NoRow /\ stFirst[id].channel_id = ch
                   THEN NoRow ELSE stFirst[id]]
  /\ stLast' = [op |-> "delete_channel_messages", message_id |-> <<0, 0, 0, 0>>,
                channel_id |-> ch, limit |-> 0, offset |-> 0, result |-> <<>>, ok |-> TRUE]
  /\ UNCHANGED stOthers

StNext ==
  \/ \E id \in RandomIds, ch \in HostChannels, ts \in Times : StStoreMessage(id, ch, ts)
  \/ \E ch \in HostChannels, limit \in PageArgs, offset \in PageArgs :
       StFetchMessages(ch, limit, offset)
  \/ \E ch \in HostChannels : StDeleteChannelMessages(ch)

(***************************************************************************)
(* Keys and digests.                                                       *)
(***************************************************************************)
\* The Ed25519 public key Identity::generate draws, and the keys the host
\* registers as friends: one below and one above it in byte order.
IdentityKeys == {2}
FriendKeys == {1, 3}
NoKey == 0

\* user_id = SHA256(ed25519_public): injective, and ordered without regard
\* to the order of the keys.
UserIdOf(k) == (k * 5) % 7

\* The X25519 secret generated with the identity, and PublicKey::from(secret).
X25519SecretOf(k) == 100 + k
X25519Public(secret) == 1000 + secret

\* derive_dm_channel_id: SHA256(min(pubA, pubB) || max(pubA, pubB)).
DeriveDmChannelIdInOrder(pubA, pubB) == <<pubA, pubB>>

DeriveDmChannelId(pubA, pubB) ==
  IF pubA <= pubB THEN <<pubA, pubB>> ELSE <<pubB, pubA>>

(***************************************************************************)
(* Self-message AEAD (dm_crypto.rs).  A ciphertext is the record of the    *)
(* key, the nonce and the plaintext it was made from; decryption succeeds  *)
(* when key and nonce are the ones it was made with.                       *)
(***************************************************************************)
\* SHA256("self_msg_key" || channel_id)
SelfKey(ch) == <<1, ch[1], ch[2]>>

\* The first 12 bytes of message_id.  Two digests differ in their first 12
\* bytes; the host's ids <<0, 0, 0, 2m - 1>> and <<0, 0, 0, 2m>> differ only
\* after them.
Nonce12(mid) ==
  IF mid[1] = 0 THEN <<0, 0, 0, (mid[4] + 1) \div 2>> ELSE mid

EncryptSelfMessageFixedNonce(ch, mid, plaintext) ==
  [key |-> SelfKey(ch), nonce |-> <<0, 0, 0, 0>>, pt |-> plaintext]

EncryptSelfMessage(ch, mid, plaintext) ==
  [key |-> SelfKey(ch), nonce |-> Nonce12(mid), pt |-> plaintext]

DecryptSelfMessageRejecting(ch, mid, ciphertext) == [ok |-> FALSE, pt |-> 0]

DecryptSelfMessage(ch, mid, ciphertext) ==
  IF ciphertext.key = SelfKey(ch) /\ ciphertext.nonce = Nonce12(mid)
  THEN [ok |-> TRUE, pt |-> ciphertext.pt]
  ELSE [ok |-> FALSE, pt |-> 0]

(***************************************************************************)
(* Noise IK sessions (dm_crypto.rs).  create_test_session runs a whole     *)
(* handshake in-process with the local keys as initiator and the remote    *)
(* keys as responder, and keeps one of the two transport states.           *)
(***************************************************************************)
\* perform_full_ik_handshake: the responder can read message 1 only if its
\* private key belongs to the public key the initiator encrypted to.  The
\* transport keys depend on the ephemeral keys drawn in this handshake.
CreateTestSession(localSecret, localPublic, remoteSecret, remotePublic, isInitiator, eph) ==
  IF X25519Public(remoteSecret) = remotePublic
  THEN [ok |-> TRUE,
        sendKey |-> <<2, eph, IF isInitiator THEN 1 ELSE 2>>,
        recvKey |-> <<2, eph, IF isInitiator THEN 2 ELSE 1>>]
  ELSE [ok |-> FALSE, sendKey |-> <<0, 0, 0>>, recvKey |-> <<0, 0, 0>>]

\* DmSession::decrypt: the first read_message of the transport state.
SessionDecrypt(session, ciphertext) ==
  IF ciphertext.key = session.recvKey /\ ciphertext.nonce = <<0, 0, 0, 0>>
  THEN [ok |-> TRUE, pt |-> ciphertext.pt]
  ELSE [ok |-> FALSE, pt |-> 0]

\* DmSession::encrypt: the first write_message of the transport state.
SessionEncrypt(session, plaintext) ==
  [key |-> session.sendKey, nonce |-> <<0, 0, 0, 0>>, pt |-> plaintext]

\* The ephemeral keys of a handshake made now: no ciphertext held anywhere
\* was made with them.
FreshEphemeral == 0

(***************************************************************************)
(* Orchestrator (lib.rs): the entry points over the singletons.            *)
(***************************************************************************)
DefaultTtl == 10

Plaintexts == 1..NumPayloads
PeerIds == {UserIdOf(k) : k \in IdentityKeys \cup FriendKeys}

\* get_friend(user_id): the friend's Ed25519 public key, or NoKey.
GetFriend(uid) ==
  IF \E k \in friends : UserIdOf(k) = uid
  THEN CHOOSE k \in friends : UserIdOf(k) = uid
  ELSE NoKey

\* The channel of the conversation with peer, as send_dm_message,
\* get_dm_messages and clear_dm_messages each derive it.
DmChannelOf(peerUid) ==
  IF peerUid = UserIdOf(IDENTITY)
  THEN DeriveDmChannelId(IDENTITY, IDENTITY)
  ELSE DeriveDmChannelId(IDENTITY, GetFriend(peerUid))

ClearChannelOfSelfOnly(peerUid) == DeriveDmChannelId(IDENTITY, IDENTITY)

ClearChannelOf(peerUid) == DmChannelOf(peerUid)

\* The peer is resolved: it is the own user_id, or FRIENDS is Some and holds
\* a friend with that user_id.
PeerResolved(peerUid) ==
  \/ peerUid = UserIdOf(IDENTITY)
  \/ friendsInit /\ GetFriend(peerUid) # NoKey

\* The session get_dm_messages and send_dm_message build: the own X25519
\* keys against the own keys (self) or against the friend's Ed25519 bytes
\* standing in for both the friend's X25519 secret and public key.
DmSession(peerUid, isInitiator) ==
  IF peerUid = UserIdOf(IDENTITY)
  THEN CreateTestSession(X25519SecretOf(IDENTITY), X25519Public(X25519SecretOf(IDENTITY)),
                         X25519SecretOf(IDENTITY), X25519Public(X25519SecretOf(IDENTITY)),
                         isInitiator, FreshEphemeral)
  ELSE CreateTestSession(X25519SecretOf(IDENTITY), X25519Public(X25519SecretOf(IDENTITY)),
                         GetFriend(peerUid), GetFriend(peerUid),
                         isInitiator, FreshEphemeral)

\* encrypt_role: true for self, our_user_id < friend_user_id otherwise.
EncryptRole(peerUid) ==
  IF peerUid = UserIdOf(IDENTITY) THEN TRUE ELSE UserIdOf(IDENTITY) < peerUid

\* String::from_utf8(plaintext_bytes)
IsUtf8(pt) == pt \in Plaintexts

\* One turn of the loop of get_dm_messages over the fetched rows: the
\* message pushed for the row, or nothing (the row is skipped).
DecryptRow(peerUid, row) ==
  LET isSelf == peerUid = UserIdOf(IDENTITY)
      role == EncryptRole(peerUid)
      opposite == DmSession(peerUid, ~role)
      same == DmSession(peerUid, role)
      plain ==
        IF isSelf
        THEN LET det == DecryptSelfMessage(DmChannelOf(peerUid), row.message_id, row.ciphertext)
             IN  IF det.ok THEN det
                 ELSE IF opposite.ok THEN SessionDecrypt(opposite, row.ciphertext)
                 ELSE IF same.ok THEN SessionDecrypt(same, row.ciphertext)
                 ELSE det
        ELSE IF ~opposite.ok THEN [ok |-> FALSE, pt |-> 0]
             ELSE LET first == SessionDecrypt(opposite, row.ciphertext)
                  IN  IF first.ok THEN first
                      ELSE IF ~same.ok THEN [ok |-> FALSE, pt |-> 0]
                      ELSE SessionDecrypt(same, row.ciphertext)
  IN  IF plain.ok /\ IsUtf8(plain.pt)
      THEN <<[message_id |-> row.message_id, plaintext |-> plain.pt,
              timestamp |-> row.timestamp, is_sent |-> isSelf \/ role]>>
      ELSE <<>>

\* for msg in messages { ... }
RECURSIVE DecryptRowsStopAtFailure(_, _)
DecryptRowsStopAtFailure(peerUid, rowSeq) ==
  IF rowSeq = <<>> \/ DecryptRow(peerUid, Head(rowSeq)) = <<>> THEN <<>>
  ELSE DecryptRow(peerUid, Head(rowSeq)) \o DecryptRowsStopAtFailure(peerUid, Tail(rowSeq))

RECURSIVE DecryptRows(_, _)
DecryptRows(peerUid, rowSeq) ==
  IF rowSeq = <<>> THEN <<>>
  ELSE DecryptRow(peerUid, Head(rowSeq)) \o DecryptRows(peerUid, Tail(rowSeq))

NullResult == [ok |-> FALSE, messages |-> <<>>]

\* Every value get_dm_messages(peer, limit, offset) can return now.
GetDmMessagesResults(peerUid, limit, offset) ==
  IF IDENTITY = NoKey \/ ~PeerResolved(peerUid) \/ ~storageInit
  THEN {NullResult}
  ELSE {[ok |-> TRUE, messages |-> DecryptRows(peerUid, fetched)] :
          fetched \in FetchMessages(messages, DmChannelOf(peerUid), limit, offset)}

CoreInit ==
  /\ identityFile = NoKey
  /\ IDENTITY = NoKey
  /\ friendsInit = FALSE
  /\ friends = {}
  /\ storageInit = FALSE
  /\ messages = {}
  /\ routerInit = FALSE
  /\ seen = {}
  /\ loopback = <<>>
  /\ last = NoCall

\* init_identity: Identity::load_or_generate, then IDENTITY = Some(id).
InitIdentity(generated) ==
  /\ identityFile' = IF identityFile = NoKey THEN generated ELSE identityFile
  /\ IDENTITY' = identityFile'
  /\ last' = [op |-> "init_identity", result |-> 0]
  /\ UNCHANGED <<friendsInit, friends, storageInit, messages, routerInit, seen, loopback>>
  /\ UNCHANGED coreOthers

\* init_friends: FRIENDS = Some(FriendManager::new()), loaded from friends.json.
InitFriends ==
  /\ friendsInit' = TRUE
  /\ last' = [op |-> "init_friends", result |-> 0]
  /\ UNCHANGED <<identityFile, IDENTITY, friends, storageInit, messages, routerInit, seen, loopback>>
  /\ UNCHANGED coreOthers

\* add_friend(ed25519_public, nickname) with a nickname no friend has.
AddFriend(key) ==
  /\ IF friendsInit
     THEN /\ friends' = friends \cup {key}
          /\ last' = [op |-> "add_friend", result |-> 0]
     ELSE /\ friends' = friends
          /\ last' = [op |-> "add_friend", result |-> -1]
  /\ UNCHANGED <<identityFile, IDENTITY, friendsInit, storageInit, messages, routerInit, seen, loopback>>
  /\ UNCHANGED coreOthers

\* remove_friend(user_id)
RemoveFriend(uid) ==
  /\ IF friendsInit
     THEN /\ friends' = {k \in friends : UserIdOf(k) # uid}
          /\ last' = [op |-> "remove_friend", result |-> IF GetFriend(uid) # NoKey THEN 1 ELSE 0]
     ELSE /\ friends' = friends
          /\ last' = [op |-> "remove_friend", result |-> -1]
  /\ UNCHANGED <<identityFile, IDENTITY, friendsInit, storageInit, messages, routerInit, seen, loopback>>
  /\ UNCHANGED coreOthers

\* init_storage: STORAGE = Some(Storage::init(db_path)); the tables of an
\* existing mesh.db are kept.
InitStorage ==
  /\ storageInit' = TRUE
  /\ last' = [op |-> "init_storage", result |-> 0]
  /\ UNCHANGED <<identityFile, IDENTITY, friendsInit, friends, messages, routerInit, seen, loopback>>
  /\ UNCHANGED coreOthers

\* store_message(message_id, channel_id, ciphertext, timestamp, ttl) over the
\* FFI: -1 unless STORAGE is Some.
StoreMessageFfi(id, ch, ts) ==
  /\ IF storageInit
     THEN /\ messages' = StoreMessage(messages, id, ch, StPayloadOf(ch, ts), ts, StTtlOf(ch, ts)).rows
          /\ last' = [op |-> "store_message", message_id |-> id, result |-> 0]
     ELSE /\ messages' = messages
          /\ last' = [op |-> "store_message", message_id |-> id, result |-> -1]
  /\ UNCHANGED <<identityFile, IDENTITY, friendsInit, friends, storageInit, routerInit, seen, loopback>>
  /\ UNCHANGED coreOthers

\* SHA256(channel_id || timestamp || plaintext)
DmMessageIdOfChannel(ch, ts, plaintext) == <<ch[1], ch[2], 0, 0>>

DmMessageId(ch, ts, plaintext) == <<ch[1], ch[2], ts, plaintext>>

\* send_dm_message(peer, plaintext) at clock reading now: the message id, or
\* null (ok = FALSE).
SendDmMessage(peerUid, plaintext, now) ==
  LET isSelf == peerUid = UserIdOf(IDENTITY)
      ch == DmChannelOf(peerUid)
      mid == DmMessageId(ch, now, plaintext)
      session == DmSession(peerUid, EncryptRole(peerUid))
      encrypted == isSelf \/ session.ok
      ciphertext == IF isSelf THEN EncryptSelfMessage(ch, mid, plaintext)
                    ELSE SessionEncrypt(session, plaintext)
      done == IDENTITY # NoKey /\ PeerResolved(peerUid) /\ encrypted /\ storageInit
  IN  /\ IF done
         THEN /\ messages' = StoreMessage(messages, mid, ch, ciphertext, now, DefaultTtl).rows
              /\ last' = [op |-> "send_dm_message", peer |-> peerUid, ok |-> TRUE,
                          message_id |-> mid, plaintext |-> plaintext, now |-> now]
         ELSE /\ messages' = messages
              /\ last' = [op |-> "send_dm_message", peer |-> peerUid, ok |-> FALSE,
                          message_id |-> <<0, 0, 0, 0>>, plaintext |-> 0, now |-> 0]
      /\ UNCHANGED <<identityFile, IDENTITY, friendsInit, friends, storageInit, routerInit, seen, loopback>>
      /\ UNCHANGED coreOthers

\* get_dm_messages(peer, limit, offset); fetched is what fetch_messages
\* returned to it.
GetDmMessages(peerUid, limit, offset) ==
  /\ IF IDENTITY = NoKey \/ ~PeerResolved(peerUid) \/ ~storageInit
     THEN last' = [op |-> "get_dm_messages", peer |-> peerUid, limit |-> limit,
                   offset |-> offset, ok |-> FALSE, fetched |-> <<>>, messages |-> <<>>]
     ELSE \E fetched \in FetchMessages(messages, DmChannelOf(peerUid), limit, offset) :
            last' = [op |-> "get_dm_messages", peer |-> peerUid, limit |-> limit,
                     offset |-> offset, ok |-> TRUE, fetched |-> fetched,
                     messages |-> DecryptRows(peerUid, fetched)]
  /\ UNCHANGED <<identityFile, IDENTITY, friendsInit, friends, storageInit, messages, routerInit, seen, loopback>>
  /\ UNCHANGED coreOthers

\* clear_dm_messages(peer): 0, or -1 when the identity, the peer or the
\* store is missing.  cleared counts the rows the purge removed.
ClearDmMessages(peerUid) ==
  LET done == IDENTITY # NoKey /\ PeerResolved(peerUid) /\ storageInit
  IN  /\ IF done
         THEN /\ messages' = DeleteChannelMessages(messages, ClearChannelOf(peerUid))
              /\ last' = [op |-> "clear_dm_messages", peer |-> peerUid, result |-> 0,
                          cleared |-> Cardinality(messages \ messages')]
         ELSE /\ messages' = messages
              /\ last' = [op |-> "clear_dm_messages", peer |-> peerUid, result |-> -1,
                          cleared |-> 0]
      /\ UNCHANGED <<identityFile, IDENTITY, friendsInit, friends, storageInit, routerInit, seen, loopback>>
      /\ UNCHANGED coreOthers

\* init_router_with_loopback: a new LoopbackTransport and a new Router over
\* it replace the ones held.
InitRouterWithLoopback ==
  /\ routerInit' = TRUE
  /\ seen' = {}
  /\ loopback' = <<>>
  /\ last' = [op |-> "init_router_with_loopback", result |-> 0]
  /\ UNCHANGED <<identityFile, IDENTITY, friendsInit, friends, storageInit, messages>>
  /\ UNCHANGED coreOthers

\* The queue of the loopback transport, the only transport of the router,
\* after the sends of a route call: it is always available, and send pushes
\* the packet and is Ok.
LoopbackAfter(queue, events) ==
  queue \o [i \in 1..Len(SendCalls(events)) |-> SendCalls(events)[i].packet]

\* The on_new closure of send_packet and ingest_packet: store_message when
\* STORAGE is Some, its result dropped.
OnNewStore(rows, events, now) ==
  IF storageInit /\ OnNewCalls(events) # <<>>
  THEN LET p == OnNewCalls(events)[1].packet
       IN  StoreMessage(rows, p.packet_id, p.channel_id, p.payload, now, p.ttl).rows
  ELSE rows

\* router.route(packet, on_new) under the ROUTER and STORAGE locks, as
\* send_packet and ingest_packet both run it; novel tells whether the
\* packet_id entered the seen-set.
RoutePacket(name, packet, now) ==
  LET routed == Route(seen, packet, <<TRUE>>, <<TRUE>>)
  IN  IF routerInit
      THEN /\ seen' = routed.seen
           /\ loopback' = LoopbackAfter(loopback, routed.events)
           /\ messages' = OnNewStore(messages, routed.events, now)
           /\ last' = [op |-> name, packet |-> packet, ok |-> TRUE,
                       novel |-> packet.packet_id \notin seen]
      ELSE /\ UNCHANGED <<seen, loopback, messages>>
           /\ last' = [op |-> name, packet |-> packet, ok |-> FALSE, novel |-> FALSE]

\* send_packet(packet_id or null, channel_id, payload, ttl): a null
\* packet_id is replaced by Router::generate_packet_id(), 32 random bytes.
SendPacket(id, ch, ttl, now) ==
  /\ RoutePacket("send_packet", Packet(id, ch, ttl, RtPayloadOf(ch)), now)
  /\ UNCHANGED <<identityFile, IDENTITY, friendsInit, friends, storageInit, routerInit>>
  /\ UNCHANGED coreOthers

\* ingest_packet(packet_id, channel_id, payload, ttl)
IngestPacket(id, ch, ttl, now) ==
  /\ RoutePacket("ingest_packet", Packet(id, ch, ttl, RtPayloadOf(ch)), now)
  /\ UNCHANGED <<identityFile, IDENTITY, friendsInit, friends, storageInit, routerInit>>
  /\ UNCHANGED coreOthers

\* drain_loopback_packets: the queued packets, and the queue emptied; null
\* (ok = FALSE) when LOOPBACK is None.
DrainLoopbackPackets ==
  /\ loopback' = <<>>
  /\ last' = [op |-> "drain_loopback_packets", ok |-> routerInit, packets |-> loopback]
  /\ UNCHANGED <<identityFile, IDENTITY, friendsInit, friends, storageInit, messages, routerInit, seen>>
  /\ UNCHANGED coreOthers

\* The process exits and is started again: every static is None at start
\* (lazy_static, Mutex::new(None)), so the router with its seen-set and the
\* loopback queue are gone; identity.json, friends.json and mesh.db stay.
ProcessRestart ==
  /\ IDENTITY' = NoKey
  /\ friendsInit' = FALSE
  /\ storageInit' = FALSE
  /\ routerInit' = FALSE
  /\ seen' = {}
  /\ loopback' = <<>>
  /\ last' = [op |-> "restart", result |-> 0]
  /\ UNCHANGED <<identityFile, friends, messages>>
  /\ UNCHANGED coreOthers

\* The channels the host names in the packet entry points and in
\* store_message: its own, and the DM channels of the identity.
DmChannels == {DeriveDmChannelId(a, b) : a \in IdentityKeys, b \in IdentityKeys \cup FriendKeys}

\* The id under which the host stores a row of its own making in a DM
\* channel; the rows the exploration keeps in the store at once.
ForeignId(ch) == <<0, 0, 0, 1 + ((ch[1] + ch[2]) % NumRandomIds)>>

PacketNext ==
  \/ InitStorage
  \/ InitRouterWithLoopback
  \/ \E id \in RandomIds, ch \in HostChannels, ts \in Times : StoreMessageFfi(id, ch, ts)
  \/ \E id \in RandomIds, ch \in HostChannels, ttl \in Ttls :
       SendPacket(id, ch, ttl, MaxTime)
  \/ \E id \in RandomIds, ch \in HostChannels, ttl \in Ttls :
       IngestPacket(id, ch, ttl, MaxTime)
  \/ DrainLoopbackPackets

\* The packet_id of the packet the radio presents again and again.
RepeatedIds == {<<0, 0, 0, 1>>}

\* A host that initialises the store and the router once per process, takes
\* packets from the radio at any clock reading, and is restarted.
RestartNext ==
  \/ ~storageInit /\ InitStorage
  \/ ~routerInit /\ InitRouterWithLoopback
  \/ \E id \in RepeatedIds, ch \in HostChannels, ttl \in Ttls, now \in Times :
       IngestPacket(id, ch, ttl, now)
  \/ ProcessRestart

DmNext ==
  \/ \E k \in IdentityKeys : InitIdentity(k)
  \/ InitFriends
  \/ \E k \in FriendKeys : AddFriend(k)
  \/ \E uid \in PeerIds : RemoveFriend(uid)
  \/ InitStorage
  \/ /\ Cardinality(messages) < MaxRows
     /\ \E ch \in DmChannels : StoreMessageFfi(ForeignId(ch), ch, MaxTime)
  \/ /\ Cardinality(messages) < MaxRows
     /\ \E uid \in PeerIds, pt \in Plaintexts, now \in Times : SendDmMessage(uid, pt, now)
  \/ \E uid \in PeerIds, limit \in PageArgs : GetDmMessages(uid, limit, 0)
  \/ \E uid \in PeerIds : ClearDmMessages(uid)

\* A direct message of the friend with key peerKey arrives from the radio:
\* the packet carries the message_id the friend's device derived for the
\* plaintext at its clock reading ts, and as payload the ciphertext of a
\* Noise session of the friend's making (ephemeral keys eph, the friend
\* writing as initiator or as responder).
IngestPeerDm(peerKey, eph, asInitiator, pt, ts, ttl, now) ==
  LET ch == DeriveDmChannelId(IDENTITY, peerKey)
      theirs == [ok |-> TRUE,
                 sendKey |-> <<2, eph, IF asInitiator THEN 1 ELSE 2>>,
                 recvKey |-> <<2, eph, IF asInitiator THEN 2 ELSE 1>>]
  IN  /\ RoutePacket("ingest_packet",
                     Packet(DmMessageId(ch, ts, pt), ch, ttl, SessionEncrypt(theirs, pt)), now)
      /\ UNCHANGED <<identityFile, IDENTITY, friendsInit, friends, storageInit, routerInit>>
      /\ UNCHANGED coreOthers

\* A conversation with friends: messages are sent, and the friends' messages
\* arrive over the last hop of their way.
PeerDmNext ==
  \/ \E k \in IdentityKeys : InitIdentity(k)
  \/ ~friendsInit /\ InitFriends
  \/ \E k \in FriendKeys : AddFriend(k)
  \/ ~storageInit /\ InitStorage
  \/ ~routerInit /\ InitRouterWithLoopback
  \/ /\ Cardinality(messages) < MaxRows
     /\ \E uid \in PeerIds, pt \in Plaintexts : SendDmMessage(uid, pt, MaxTime)
  \/ /\ Cardinality(messages) < MaxRows
     /\ IDENTITY # NoKey
     /\ \E k \in FriendKeys, asInitiator \in BOOLEAN, pt \in Plaintexts :
          IngestPeerDm(k, 1, asInitiator, pt, 0, 0, MaxTime)
  \/ \E uid \in PeerIds, limit \in PageArgs : GetDmMessages(uid, limit, 0)

\* Sending direct messages in a process that also holds a router.
DmRouterNext ==
  \/ \E k \in IdentityKeys : InitIdentity(k)
  \/ InitStorage
  \/ InitRouterWithLoopback
  \/ /\ Cardinality(messages) < MaxRows
     /\ \E uid \in PeerIds, pt \in Plaintexts, now \in Times : SendDmMessage(uid, pt, now)
  \/ DrainLoopbackPackets

(***************************************************************************)
(* The singleton mutexes of lib.rs and the order in which each entry       *)
(* point locks and unlocks them.  A guard is released where its binding    *)
(* goes out of scope; the guards of one scope are dropped in reverse order *)
(* of declaration.                                                         *)
(***************************************************************************)
Locks == {"IDENTITY", "FRIENDS", "STORAGE", "ROUTER", "LOOPBACK", "seen", "buffer"}

Acq(l) == [kind |-> "acq", lock |-> l, to |-> 0]
Rel(l) == [kind |-> "rel", lock |-> l, to |-> 0]
\* if let Some(ref router) = *r_guard { ... } else { -> step to }
IfRouterElse(to) == [kind |-> "if_router", lock |-> "ROUTER", to |-> to]
\* if let Some(ref lb) = *lb_guard { ... } else { -> step to }
IfLoopbackElse(to) == [kind |-> "if_loopback", lock |-> "LOOPBACK", to |-> to]
\* Router::route past the seen-set: on to the sends for a novel packet with
\* ttl left, or a return (-> step to).
IfForwardElse(to) == [kind |-> "if_forward", lock |-> "seen", to |-> to]
\* *r_guard = Some(router)
SetRouter == [kind |-> "set_router", lock |-> "ROUTER", to |-> 0]
\* *lb_guard = Some(loopback)
SetLoopback == [kind |-> "set_loopback", lock |-> "LOOPBACK", to |-> 0]

\* send_dm_message, get_dm_messages and clear_dm_messages with a friend as
\* peer: IDENTITY for the whole call, FRIENDS in an inner scope, then STORAGE.
DmPeerProgram ==
  <<Acq("IDENTITY"), Acq("FRIENDS"), Rel("FRIENDS"), Acq("STORAGE"), Rel("STORAGE"),
    Rel("IDENTITY")>>

\* The same entry points with the own user_id as peer: FRIENDS is not locked.
DmSelfProgramStorageFirst ==
  <<Acq("STORAGE"), Acq("IDENTITY"), Rel("IDENTITY"), Rel("STORAGE")>>

DmSelfProgram ==
  <<Acq("IDENTITY"), Acq("STORAGE"), Rel("STORAGE"), Rel("IDENTITY")>>

\* store_message, get_messages, init_storage
StorageProgram == <<Acq("STORAGE"), Rel("STORAGE")>>

\* init_identity, get_user_id and the other readers of the identity
IdentityProgram == <<Acq("IDENTITY"), Rel("IDENTITY")>>

\* init_friends, add_friend, remove_friend, update_friend_nickname,
\* update_friend_profile, import_friend_from_json, get_all_friends
FriendsProgram == <<Acq("FRIENDS"), Rel("FRIENDS")>>

\* init_router_with_loopback: LOOPBACK and ROUTER each in a block of its own.
InitRouterProgram ==
  <<Acq("LOOPBACK"), SetLoopback, Rel("LOOPBACK"), Acq("ROUTER"), SetRouter, Rel("ROUTER")>>

\* send_packet and ingest_packet: ROUTER, and inside the Some branch STORAGE
\* around router.route, which locks the seen-set for the insert and, in
\* LoopbackTransport::send, the buffer of the transport.
PacketProgram ==
  <<Acq("ROUTER"), IfRouterElse(10), Acq("STORAGE"), Acq("seen"), Rel("seen"),
    IfForwardElse(9), Acq("buffer"), Rel("buffer"), Rel("STORAGE"), Rel("ROUTER")>>

\* drain_loopback_packets: LOOPBACK, and the buffer in LoopbackTransport::drain.
DrainProgram ==
  <<Acq("LOOPBACK"), IfLoopbackElse(5), Acq("buffer"), Rel("buffer"), Rel("LOOPBACK")>>

EntryPoints ==
  {"dm_with_friend", "dm_with_self", "store_message", "init_identity", "add_friend",
   "init_router_with_loopback", "send_packet", "ingest_packet", "drain_loopback_packets"}

LockProgram(name) ==
  CASE name = "dm_with_friend" -> DmPeerProgram
    [] name = "dm_with_self" -> DmSelfProgram
    [] name = "store_message" -> StorageProgram
    [] name = "init_identity" -> IdentityProgram
    [] name = "add_friend" -> FriendsProgram
    [] name = "init_router_with_loopback" -> InitRouterProgram
    [] name = "send_packet" -> PacketProgram
    [] name = "ingest_packet" -> PacketProgram
    [] name = "drain_loopback_packets" -> DrainProgram

\* No LoopbackTransport: LOOPBACK is None, ROUTER is None.
NoInstance == 0

LkInit ==
  /\ lkOwner = [l \in Locks |-> NoThread]
  /\ lkOp = [t \in Threads |-> "idle"]
  /\ lkPc = [t \in Threads |-> 0]
  /\ lkHeld = [t \in Threads |-> <<>>]
  /\ lkInstance = [LOOPBACK |-> NoInstance, ROUTER |-> NoInstance]
  /\ lkMine = [t \in Threads |-> NoInstance]
  /\ lkCreated = 0

LkStep(t) == LockProgram(lkOp[t])[lkPc[t]]
LkRunning(t) == lkOp[t] # "idle" /\ lkPc[t] <= Len(LockProgram(lkOp[t]))

\* A thread enters an entry point.  init_router_with_loopback makes its
\* LoopbackTransport, and the Router over it, before it locks anything.
LkCall(t, name) ==
  /\ lkOp[t] = "idle"
  /\ lkOp' = [lkOp EXCEPT ![t] = name]
  /\ lkPc' = [lkPc EXCEPT ![t] = 1]
  /\ IF name = "init_router_with_loopback"
     THEN /\ lkCreated < MaxInits
          /\ lkCreated' = lkCreated + 1
          /\ lkMine' = [lkMine EXCEPT ![t] = lkCreated + 1]
     ELSE UNCHANGED <<lkCreated, lkMine>>
  /\ UNCHANGED <<lkOwner, lkHeld, lkInstance, routerInit>>
  /\ UNCHANGED lkOthers

\* X.lock().unwrap(): blocks while a thread holds the mutex.
LkAcquire(t) ==
  /\ LkRunning(t)
  /\ LkStep(t).kind = "acq"
  /\ lkOwner[LkStep(t).lock] = NoThread
  /\ lkOwner' = [lkOwner EXCEPT ![LkStep(t).lock] = t]
  /\ lkHeld' = [lkHeld EXCEPT ![t] = Append(@, LkStep(t).lock)]
  /\ lkPc' = [lkPc EXCEPT ![t] = @ + 1]
  /\ UNCHANGED <<lkOp, lkInstance, lkMine, lkCreated, routerInit>>
  /\ UNCHANGED lkOthers

\* The guard is dropped.
LkRelease(t) ==
  /\ LkRunning(t)
  /\ LkStep(t).kind = "rel"
  /\ lkOwner' = [lkOwner EXCEPT ![LkStep(t).lock] = NoThread]
  /\ lkHeld' = [lkHeld EXCEPT ![t] = SelectSeq(@, LAMBDA l : l # LkStep(t).lock)]
  /\ lkPc' = [lkPc EXCEPT ![t] = @ + 1]
  /\ UNCHANGED <<lkOp, lkInstance, lkMine, lkCreated, routerInit>>
  /\ UNCHANGED lkOthers

LkTestRouter(t) ==
  /\ LkRunning(t)
  /\ LkStep(t).kind = "if_router"
  /\ lkPc' = [lkPc EXCEPT ![t] = IF routerInit THEN @ + 1 ELSE LkStep(t).to]
  /\ UNCHANGED <<lkOwner, lkOp, lkHeld, lkInstance, lkMine, lkCreated, routerInit>>
  /\ UNCHANGED lkOthers

LkTestLoopback(t) ==
  /\ LkRunning(t)
  /\ LkStep(t).kind = "if_loopback"
  /\ lkPc' = [lkPc EXCEPT ![t] = IF lkInstance.LOOPBACK # NoInstance THEN @ + 1
                                  ELSE LkStep(t).to]
  /\ UNCHANGED <<lkOwner, lkOp, lkHeld, lkInstance, lkMine, lkCreated, routerInit>>
  /\ UNCHANGED lkOthers

\* forward: the packet is novel and its ttl is not 0.
LkTestForward(t, forward) ==
  /\ LkRunning(t)
  /\ LkStep(t).kind = "if_forward"
  /\ lkPc' = [lkPc EXCEPT ![t] = IF forward THEN @ + 1 ELSE LkStep(t).to]
  /\ UNCHANGED <<lkOwner, lkOp, lkHeld, lkInstance, lkMine, lkCreated, routerInit>>
  /\ UNCHANGED lkOthers

LkSetLoopback(t) ==
  /\ LkRunning(t)
  /\ LkStep(t).kind = "set_loopback"
  /\ lkInstance' = [lkInstance EXCEPT !.LOOPBACK = lkMine[t]]
  /\ lkPc' = [lkPc EXCEPT ![t] = @ + 1]
  /\ UNCHANGED <<lkOwner, lkOp, lkHeld, lkMine, lkCreated, routerInit>>
  /\ UNCHANGED lkOthers

\* The new Router forwards to the LoopbackTransport this call made.
LkSetRouter(t) ==
  /\ LkRunning(t)
  /\ LkStep(t).kind = "set_router"
  /\ routerInit' = TRUE
  /\ lkInstance' = [lkInstance EXCEPT !.ROUTER = lkMine[t]]
  /\ lkPc' = [lkPc EXCEPT ![t] = @ + 1]
  /\ UNCHANGED <<lkOwner, lkOp, lkHeld, lkMine, lkCreated>>
  /\ UNCHANGED lkOthers

\* The entry point returns.
LkReturn(t) ==
  /\ lkOp[t] # "idle"
  /\ lkPc[t] > Len(LockProgram(lkOp[t]))
  /\ lkOp' = [lkOp EXCEPT ![t] = "idle"]
  /\ lkPc' = [lkPc EXCEPT ![t] = 0]
  /\ UNCHANGED <<lkOwner, lkHeld, lkInstance, lkMine, lkCreated, routerInit>>
  /\ UNCHANGED lkOthers

LockNext ==
  \E t \in Threads :
    \/ \E name \in EntryPoints : LkCall(t, name)
    \/ LkAcquire(t)
    \/ LkRelease(t)
    \/ LkTestRouter(t)
    \/ LkTestLoopback(t)
    \/ \E forward \in BOOLEAN : LkTestForward(t, forward)
    \/ LkSetLoopback(t)
    \/ LkSetRouter(t)
    \/ LkReturn(t)

(***************************************************************************)
(* The functions of dm_crypto.rs called on their own, and                  *)
(* test_dm_encrypt_decrypt (lib.rs), which builds two sessions and sends   *)
(* one message from the first to the second.                               *)
(***************************************************************************)
Keys32 == 0..NumKeys
Ephemerals == 1..NumEphemerals

CyInit == cyLast = NoCall

\* derive_dm_channel_id(pub_a, pub_b), and the same call with the
\* arguments exchanged.
CyDeriveDmChannelId(a, b) ==
  /\ cyLast' = [op |-> "derive_dm_channel_id", a |-> a, b |-> b,
                ab |-> DeriveDmChannelId(a, b), ba |-> DeriveDmChannelId(b, a)]
  /\ UNCHANGED cyOthers

\* encrypt_self_message(channel_id, message_id, plaintext) called twice,
\* decrypt_self_message of the result, and encrypt_self_message of the same
\* plaintext under another message_id.
CySelfMessage(ch, mid, other, plaintext) ==
  /\ cyLast' = [op |-> "encrypt_self_message", channel_id |-> ch, message_id |-> mid,
                other_id |-> other, plaintext |-> plaintext,
                first |-> EncryptSelfMessage(ch, mid, plaintext),
                second |-> EncryptSelfMessage(ch, mid, plaintext),
                decrypted |-> DecryptSelfMessage(ch, mid, EncryptSelfMessage(ch, mid, plaintext)),
                under_other |-> EncryptSelfMessage(ch, other, plaintext)]
  /\ UNCHANGED cyOthers

\* test_dm_encrypt_decrypt: create_test_session(.., true) and
\* create_test_session(.., false) each run a handshake of their own, with
\* the ephemeral keys e1 and e2; encrypt on the first session, decrypt on
\* the second, compare.
TestDmEncryptDecrypt(localSecret, localPublic, remoteSecret, remotePublic, message, e1, e2) ==
  LET initSession == CreateTestSession(localSecret, localPublic, remoteSecret, remotePublic, TRUE, e1)
      respSession == CreateTestSession(localSecret, localPublic, remoteSecret, remotePublic, FALSE, e2)
      decrypted == SessionDecrypt(respSession, SessionEncrypt(initSession, message))
  IN  IF ~initSession.ok THEN "Error creating initiator session"
      ELSE IF ~respSession.ok THEN "Error creating responder session"
      ELSE IF ~decrypted.ok THEN "Error decrypting"
      ELSE IF decrypted.pt # message THEN "Error: Decrypted message doesn't match original"
      ELSE "OK"

\* Two draws of 32 random bytes by the handshakes differ.
CyTestDmEncryptDecrypt(localSecret, remoteSecret, remotePublic, message, e1, e2) ==
  /\ e1 # e2
  /\ cyLast' = [op |-> "test_dm_encrypt_decrypt",
                valid |-> X25519Public(remoteSecret) = remotePublic,
                message |-> message,
                result |-> TestDmEncryptDecrypt(localSecret, X25519Public(localSecret),
                                                remoteSecret, remotePublic, message, e1, e2)]
  /\ UNCHANGED cyOthers

\* The message ids given to encrypt_self_message: ids that differ only
\* after their first 12 bytes, and digests.
CyMessageIds ==
  RandomIds \cup {DmMessageId(DeriveDmChannelId(k, k), ts, 1) : k \in IdentityKeys, ts \in Times}

CryptoNext ==
  \/ \E a \in Keys32, b \in Keys32 : CyDeriveDmChannelId(a, b)
  \/ \E ch \in DmChannels \cup HostChannels, mid \in CyMessageIds, other \in CyMessageIds,
        plaintext \in Plaintexts :
       CySelfMessage(ch, mid, other, plaintext)
  \/ \E l \in Keys32, r \in Keys32, message \in Plaintexts, e1 \in Ephemerals, e2 \in Ephemerals :
       \/ CyTestDmEncryptDecrypt(X25519SecretOf(l), X25519SecretOf(r),
                                 X25519Public(X25519SecretOf(r)), message, e1, e2)
       \/ CyTestDmEncryptDecrypt(X25519SecretOf(l), r, r, message, e1, e2)

(***************************************************************************)
(* The friend registry: FriendsStorage and FriendManager (friends.rs)      *)
(* behind add_friend, import_friend_from_json, update_friend_nickname,     *)
(* update_friend_profile and remove_friend (lib.rs).  FRIENDS holds a      *)
(* manager that found no friends.json.  An identifier or a key is one byte *)
(* where the code has thirty-two; a hexadecimal string is the sequence of  *)
(* its digits, a digit above 15 standing for a character that is none.     *)
(* A nickname is a name and its case: name 0 is the empty string, name -1  *)
(* a null pointer.  A note, the tags and the display name are 0 when       *)
(* empty and 1 when set, and -1 as an argument is a null pointer.          *)
(***************************************************************************)
HexEncode(byte) == <<byte \div 16, byte % 16>>

HexFailure == <<-1>>

HexDecode(str) ==
  IF Len(str) % 2 # 0 \/ \E i \in 1..Len(str) : str[i] \notin 0..15
  THEN HexFailure
  ELSE [i \in 1..(Len(str) \div 2) |-> str[2 * i - 1] * 16 + str[2 * i]]

\* The identifier a hexadecimal argument of the FFI stands for, when it
\* decodes to an array of the right length.
IsId(str) == HexDecode(str) # HexFailure /\ Len(HexDecode(str)) = 1

\* The strings a caller passes for an identifier among ids: their encodings,
\* a string with a character that is no digit, and one of another length.
HexInputs(ids) == {HexEncode(i) : i \in ids} \cup {<<0, 16>>, <<0, 1, 0, 2>>}

Nicknames == {<<0, FALSE>>} \cup ((1..NumNicknames) \X BOOLEAN)
NullNickname == <<-1, FALSE>>

EqIgnoreAsciiCase(a, b) == a[1] = b[1]

\* HashMap<String, Friend>: insert replaces the entry of the key.
MapInsert(map, k, v) == {e \in map : e.key # k} \cup {[key |-> k, value |-> v]}
MapRemove(map, k) == {e \in map : e.key # k}
MapHas(map, k) == \E e \in map : e.key = k

\* is_nickname_taken(nickname, exclude_user_id), exclude -1 being None; and
\* the same test were nicknames compared byte for byte.
IsNicknameTakenExactCase(map, nickname, exclude) ==
  \E e \in map :
    /\ ~(exclude # -1 /\ HexEncode(exclude) = e.key)
    /\ e.value.nickname = nickname

IsNicknameTaken(map, nickname, exclude) ==
  \E e \in map :
    /\ ~(exclude # -1 /\ HexEncode(exclude) = e.key)
    /\ EqIgnoreAsciiCase(e.value.nickname, nickname)

\* The key FriendsStorage::add_friend files a record under, and the key it
\* would use were it taken from the public key.
FriendMapKeyOfPublic(friend) == HexEncode(friend.ed25519_public)
FriendMapKey(friend) == HexEncode(friend.user_id)

FriendsStorageAddFriendExcludingSelf(map, friend) ==
  IF UserIdOf(friend.ed25519_public) # friend.user_id
  THEN [ok |-> FALSE, friends |-> map]
  ELSE IF IsNicknameTaken(map, friend.nickname, friend.user_id)
       THEN [ok |-> FALSE, friends |-> map]
       ELSE [ok |-> TRUE, friends |-> MapInsert(map, FriendMapKey(friend), friend)]

FriendsStorageAddFriend(map, friend) ==
  IF UserIdOf(friend.ed25519_public) # friend.user_id
  THEN [ok |-> FALSE, friends |-> map]
  ELSE IF IsNicknameTaken(map, friend.nickname, -1)
       THEN [ok |-> FALSE, friends |-> map]
       ELSE [ok |-> TRUE, friends |-> MapInsert(map, FriendMapKey(friend), friend)]

\* FriendManager::add_friend: the record is built, added and then saved; a
\* failed save leaves the record in the registry and returns the error.
FriendManagerAddFriend(map, ed25519_public, nickname, saveOk) ==
  LET friend == [user_id |-> UserIdOf(ed25519_public), ed25519_public |-> ed25519_public,
                 nickname |-> nickname, notes |-> 0, tags |-> 0,
                 custom_display_name |-> 0]
      added == FriendsStorageAddFriend(map, friend)
  IN  [ok |-> added.ok /\ saveOk, friends |-> added.friends, user_id |-> friend.user_id]

FriendsStorageUpdateNickname(map, user_id, nickname) ==
  IF IsNicknameTaken(map, nickname, user_id)
  THEN [ok |-> FALSE, friends |-> map]
  ELSE IF MapHas(map, HexEncode(user_id))
       THEN [ok |-> TRUE,
             friends |-> {IF e.key = HexEncode(user_id)
                          THEN [e EXCEPT !.value.nickname = nickname] ELSE e : e \in map}]
       ELSE [ok |-> FALSE, friends |-> map]

\* update_profile were the nickname tested against every record, the
\* target's own included.
FriendsStorageUpdateProfileNoExclude(map, user_id, nickname, notes, tags, custom_display_name) ==
  IF nickname # NullNickname /\ IsNicknameTaken(map, nickname, -1)
  THEN [ok |-> FALSE, friends |-> map]
  ELSE IF MapHas(map, HexEncode(user_id))
       THEN [ok |-> TRUE,
             friends |->
               {IF e.key = HexEncode(user_id)
                THEN [e EXCEPT
                        !.value.nickname = IF nickname # NullNickname THEN nickname ELSE @,
                        !.value.notes = IF notes # -1 THEN notes ELSE @,
                        !.value.tags = IF tags # -1 THEN tags ELSE @,
                        !.value.custom_display_name =
                          IF custom_display_name # -1 THEN custom_display_name ELSE @]
                ELSE e : e \in map}]
       ELSE [ok |-> FALSE, friends |-> map]

\* update_profile: each argument that is Some replaces its field.
FriendsStorageUpdateProfile(map, user_id, nickname, notes, tags, custom_display_name) ==
  IF nickname # NullNickname /\ IsNicknameTaken(map, nickname, user_id)
  THEN [ok |-> FALSE, friends |-> map]
  ELSE IF MapHas(map, HexEncode(user_id))
       THEN [ok |-> TRUE,
             friends |->
               {IF e.key = HexEncode(user_id)
                THEN [e EXCEPT
                        !.value.nickname = IF nickname # NullNickname THEN nickname ELSE @,
                        !.value.notes = IF notes # -1 THEN notes ELSE @,
                        !.value.tags = IF tags # -1 THEN tags ELSE @,
                        !.value.custom_display_name =
                          IF custom_display_name # -1 THEN custom_display_name ELSE @]
                ELSE e : e \in map}]
       ELSE [ok |-> FALSE, friends |-> map]

\* parse_friend_from_json: the export's user_id is returned as it came.
ParseFriendFromJson(json) ==
  IF json.valid /\ IsId(json.ed25519_public)
  THEN [ok |-> TRUE, user_id |-> json.user_id, key |-> HexDecode(json.ed25519_public)[1]]
  ELSE [ok |-> FALSE, user_id |-> json.user_id, key |-> -1]

FrInit ==
  /\ frFriends = {}
  /\ frLast = [op |-> "none", id |-> -1, result |-> 0]

\* add_friend(ed25519_public_hex, nickname): the user_id, or null (-1);
\* replaced holds the record the registry had for that user_id.
FrAddFriend(ed25519_public_hex, nickname, saveOk) ==
  /\ IF nickname # NullNickname /\ IsId(ed25519_public_hex)
     THEN LET r == FriendManagerAddFriend(frFriends, HexDecode(ed25519_public_hex)[1],
                                          nickname, saveOk)
          IN  /\ frFriends' = r.friends
              /\ frLast' = [op |-> "add_friend", id |-> r.user_id,
                            result |-> IF r.ok THEN 0 ELSE -1,
                            replaced |-> {e.value : e \in {x \in frFriends :
                                            x.value.user_id = r.user_id}}]
     ELSE /\ frFriends' = frFriends
          /\ frLast' = [op |-> "add_friend", id |-> -1, result |-> -1, replaced |-> {}]
  /\ UNCHANGED frOthers

\* import_friend_from_json(json, nickname): the key of the export is added,
\* the user_id of the export is dropped.
FrImportFriendFromJson(json, nickname, saveOk) ==
  /\ IF nickname # NullNickname /\ ParseFriendFromJson(json).ok
     THEN LET r == FriendManagerAddFriend(frFriends, ParseFriendFromJson(json).key,
                                          nickname, saveOk)
          IN  /\ frFriends' = r.friends
              /\ frLast' = [op |-> "import_friend_from_json", id |-> r.user_id,
                            result |-> IF r.ok THEN 0 ELSE -1]
     ELSE /\ frFriends' = frFriends
          /\ frLast' = [op |-> "import_friend_from_json", id |-> -1, result |-> -1]
  /\ UNCHANGED frOthers

\* update_friend_nickname(user_id_hex, nickname): 0, or -1.
FrUpdateFriendNickname(user_id_hex, nickname, saveOk) ==
  /\ IF nickname # NullNickname /\ IsId(user_id_hex)
     THEN LET user_id == HexDecode(user_id_hex)[1]
              r == FriendsStorageUpdateNickname(frFriends, user_id, nickname)
          IN  /\ frFriends' = r.friends
              /\ frLast' = [op |-> "update_friend_nickname", id |-> user_id,
                            result |-> IF r.ok /\ saveOk THEN 0 ELSE -1]
     ELSE /\ frFriends' = frFriends
          /\ frLast' = [op |-> "update_friend_nickname", id |-> -1, result |-> -1]
  /\ UNCHANGED frOthers

\* update_friend_profile: a null or empty nickname changes nothing, an empty
\* display name clears it.
FrUpdateFriendProfile(user_id_hex, nickname, notes, tags, custom_display_name, saveOk) ==
  /\ IF IsId(user_id_hex)
     THEN LET user_id == HexDecode(user_id_hex)[1]
              nickname_opt == IF nickname[1] <= 0 THEN NullNickname ELSE nickname
              r == FriendsStorageUpdateProfile(frFriends, user_id, nickname_opt, notes,
                                               tags, custom_display_name)
          IN  /\ frFriends' = r.friends
              /\ frLast' = [op |-> "update_friend_profile", id |-> user_id,
                            result |-> IF r.ok /\ saveOk THEN 0 ELSE -1]
     ELSE /\ frFriends' = frFriends
          /\ frLast' = [op |-> "update_friend_profile", id |-> -1, result |-> -1]
  /\ UNCHANGED frOthers

\* remove_friend(user_id_hex): 1 when removed and saved, 0 when not found.
FrRemoveFriend(user_id_hex, saveOk) ==
  /\ IF IsId(user_id_hex)
     THEN LET user_id == HexDecode(user_id_hex)[1]
              removed == MapHas(frFriends, HexEncode(user_id))
          IN  /\ frFriends' = MapRemove(frFriends, HexEncode(user_id))
              /\ frLast' = [op |-> "remove_friend", id |-> user_id,
                            result |-> IF ~removed THEN 0 ELSE IF saveOk THEN 1 ELSE -1]
     ELSE /\ frFriends' = frFriends
          /\ frLast' = [op |-> "remove_friend", id |-> -1, result |-> -1]
  /\ UNCHANGED frOthers

\* The public keys callers register, and their user ids.
FriendPublics == 1..NumKeys
FriendUserIds == {UserIdOf(k) : k \in FriendPublics}
NicknameInputs == Nicknames \cup {NullNickname}
\* The exports a caller scans: one that is no JSON, and those naming a key
\* with a user_id that is the one of the first key, or no hexadecimal string,
\* or one of another length.
FriendJsons ==
  {[valid |-> FALSE, user_id |-> << >>, ed25519_public |-> << >>]} \cup
  {[valid |-> TRUE, user_id |-> u, ed25519_public |-> h] :
     u \in HexInputs({UserIdOf(1)}), h \in HexInputs(FriendPublics)}
\* The note, tags and display name of one profile update: none given, all
\* set, all emptied.
ProfileInputs == {<<-1, -1, -1>>, <<1, 1, 1>>, <<0, 0, 0>>}

FriendsNext ==
  \/ \E h \in HexInputs(FriendPublics), n \in NicknameInputs, saveOk \in BOOLEAN :
       FrAddFriend(h, n, saveOk)
  \/ \E json \in FriendJsons, n \in NicknameInputs, saveOk \in BOOLEAN :
       FrImportFriendFromJson(json, n, saveOk)
  \/ \E h \in HexInputs(FriendUserIds), n \in NicknameInputs, saveOk \in BOOLEAN :
       FrUpdateFriendNickname(h, n, saveOk)
  \/ \E h \in HexInputs(FriendUserIds), n \in NicknameInputs, p \in ProfileInputs,
        saveOk \in BOOLEAN :
       FrUpdateFriendProfile(h, n, p[1], p[2], p[3], saveOk)
  \/ \E h \in HexInputs(FriendUserIds), saveOk \in BOOLEAN : FrRemoveFriend(h, saveOk)

(***************************************************************************)
(* The device identity: init_identity (lib.rs) calls                       *)
(* Identity::load_or_generate (identity.rs) outside any lock and then      *)
(* stores the result in IDENTITY.  A step is one call of the file system,  *)
(* each of which may fail.  The identity file is the sequence of tokens of *)
(* its JSON text: -1, the Ed25519 secret, -2, the X25519 secret, -3; a     *)
(* byte never written is 0.  A path names an inode, and an open file keeps *)
(* its inode whatever the path names later.                                *)
(***************************************************************************)
Mode0600 == 384

\* The mode File::create gives a new file: 0o666 less the umask of the
\* process, 0o600 under umask 077 and 0o644 under the usual 022.
CreateModes == {Mode0600, 420}

NoKeys == <<0, 0>>

\* The secrets Identity::generate draws.
IdentitySecrets == {<<k, NumKeys + 1 - k>> : k \in 1..NumKeys}

\* SigningKey::verifying_key, and user_id = SHA256 of it.
EdPublicOf(secret) == 10 + secret
IdentityUserId(keys) == UserIdOf(EdPublicOf(keys[1]))

\* serde_json::to_vec(&IdentityKeys) and, reading the two fields in the
\* other order, what a writer confusing them would produce.
IdSerializeSwapped(keys) == <<-1, keys[2], -2, keys[1], -3>>
IdSerialize(keys) == <<-1, keys[1], -2, keys[2], -3>>

\* serde_json::from_slice: NoKeys when the text is not the whole object.
IdParse(data) ==
  IF /\ Len(data) = 5
     /\ data[1] = -1 /\ data[3] = -2 /\ data[5] = -3
     /\ data[2] > 0 /\ data[4] > 0
  THEN <<data[2], data[4]>>
  ELSE NoKeys

\* write(2) of chunk at offset: the file grows as needed, zero-filled.
WriteAt(content, offset, chunk) ==
  LET end == offset + Len(chunk)
      len == IF Len(content) > end THEN Len(content) ELSE end
  IN  [i \in 1..len |->
         IF i > offset /\ i <= end THEN chunk[i - offset]
         ELSE IF i <= Len(content) THEN content[i] ELSE 0]

Inodes == 1..(NumThreads + 2)
BlankInode == [content |-> << >>, mode |-> 0]

Referenced(i, final, tmp, fd) ==
  i = final \/ i = tmp \/ \E t \in Threads : fd[t] = i

\* An inode no path and no open file refers to is freed.
Collect(inodes, final, tmp, fd) ==
  [i \in Inodes |-> IF Referenced(i, final, tmp, fd) THEN inodes[i] ELSE BlankInode]

FreeInode ==
  CHOOSE i \in Inodes :
    /\ ~Referenced(i, idFinal, idTmp, idFd)
    /\ \A j \in Inodes : ~Referenced(j, idFinal, idTmp, idFd) => i <= j

IdInit ==
  /\ idFinal = 0
  /\ idTmp = 0
  /\ idInodes = [i \in Inodes |-> BlankInode]
  /\ idMem = NoKeys
  /\ idPc = [t \in Threads |-> "idle"]
  /\ idKeys = [t \in Threads |-> NoKeys]
  /\ idFd = [t \in Threads |-> 0]
  /\ idResult = 1
  /\ idUserId = << >>
  /\ idModified = FALSE

\* init_identity returns -1: the error of load_or_generate, its file dropped.
IdFail(t) ==
  /\ idPc' = [idPc EXCEPT ![t] = "idle"]
  /\ idKeys' = [idKeys EXCEPT ![t] = NoKeys]
  /\ idFd' = [idFd EXCEPT ![t] = 0]
  /\ idInodes' = Collect(idInodes, idFinal, idTmp, idFd')
  /\ idResult' = -1
  /\ UNCHANGED <<idFinal, idTmp, idMem, idUserId, idModified>>

\* load_or_generate: storage_path.exists(), and Identity::generate if not.
IdLoadOrGenerate(t, generated) ==
  /\ idPc[t] = "idle"
  /\ IF idFinal # 0
     THEN /\ idPc' = [idPc EXCEPT ![t] = "read"]
          /\ idKeys' = idKeys
     ELSE /\ idPc' = [idPc EXCEPT ![t] = "mkdir"]
          /\ idKeys' = [idKeys EXCEPT ![t] = generated]
  /\ UNCHANGED <<idFinal, idTmp, idInodes, idMem, idFd, idResult, idUserId, idModified>>
  /\ UNCHANGED idOthers

\* load_from_storage were a file that cannot be read or parsed answered by
\* generating a new identity over it.
IdLoadFromStorageOrRegenerate(t, ok) ==
  /\ idPc[t] = "read"
  /\ LET keys == IdParse(idInodes[idFinal].content)
     IN  /\ idPc' = [idPc EXCEPT ![t] = IF ok /\ keys # NoKeys THEN "store" ELSE "mkdir"]
         /\ idKeys' = [idKeys EXCEPT ![t] = IF ok /\ keys # NoKeys THEN keys
                                            ELSE <<1, NumKeys>>]
         /\ UNCHANGED <<idFinal, idTmp, idInodes, idMem, idFd, idResult, idUserId,
                        idModified>>
  /\ UNCHANGED idOthers

\* load_from_storage: fs::read, serde_json::from_slice, the keys rebuilt.
IdLoadFromStorage(t, ok) ==
  /\ idPc[t] = "read"
  /\ LET keys == IdParse(idInodes[idFinal].content)
     IN  IF ok /\ keys # NoKeys
         THEN /\ idPc' = [idPc EXCEPT ![t] = "store"]
              /\ idKeys' = [idKeys EXCEPT ![t] = keys]
              /\ UNCHANGED <<idFinal, idTmp, idInodes, idMem, idFd, idResult, idUserId,
                             idModified>>
         ELSE IdFail(t)
  /\ UNCHANGED idOthers

\* save_to_storage: fs::create_dir_all(parent).
IdCreateDirAll(t, ok) ==
  /\ idPc[t] = "mkdir"
  /\ IF ok
     THEN /\ idPc' = [idPc EXCEPT ![t] = "create"]
          /\ UNCHANGED <<idFinal, idTmp, idInodes, idMem, idKeys, idFd, idResult, idUserId,
                         idModified>>
     ELSE IdFail(t)
  /\ UNCHANGED idOthers

\* File::create(identity.tmp): an existing file is truncated and keeps its
\* mode, a new one gets the mode the umask leaves.
IdCreateTmp(t, ok, mode) ==
  /\ idPc[t] = "create"
  /\ IF ok
     THEN /\ idPc' = [idPc EXCEPT ![t] = "write1"]
          /\ IF idTmp # 0
             THEN /\ idTmp' = idTmp
                  /\ idFd' = [idFd EXCEPT ![t] = idTmp]
                  /\ idInodes' = [idInodes EXCEPT ![idTmp].content = << >>]
             ELSE /\ idTmp' = FreeInode
                  /\ idFd' = [idFd EXCEPT ![t] = FreeInode]
                  /\ idInodes' = [idInodes EXCEPT ![FreeInode] =
                                    [content |-> << >>, mode |-> mode]]
          /\ UNCHANGED <<idFinal, idMem, idKeys, idResult, idUserId, idModified>>
     ELSE IdFail(t)
  /\ UNCHANGED idOthers

\* file.write_all(&data), in two writes: the first two tokens, then the rest.
IdWriteAll(t, ok) ==
  /\ idPc[t] \in {"write1", "write2"}
  /\ IF ok
     THEN LET data == IdSerialize(idKeys[t])
              offset == IF idPc[t] = "write1" THEN 0 ELSE 2
              chunk == IF idPc[t] = "write1" THEN SubSeq(data, 1, 2) ELSE SubSeq(data, 3, 5)
          IN  /\ idInodes' = [idInodes EXCEPT ![idFd[t]].content = WriteAt(@, offset, chunk)]
              /\ idPc' = [idPc EXCEPT ![t] = IF idPc[t] = "write1" THEN "write2" ELSE "sync"]
              /\ UNCHANGED <<idFinal, idTmp, idMem, idKeys, idFd, idResult, idUserId,
                             idModified>>
     ELSE IdFail(t)
  /\ UNCHANGED idOthers

\* file.sync_all() and drop(file).
IdSyncAll(t, ok) ==
  /\ idPc[t] = "sync"
  /\ IF ok
     THEN /\ idPc' = [idPc EXCEPT ![t] = "rename"]
          /\ idFd' = [idFd EXCEPT ![t] = 0]
          /\ idInodes' = Collect(idInodes, idFinal, idTmp, idFd')
          /\ UNCHANGED <<idFinal, idTmp, idMem, idKeys, idResult, idUserId, idModified>>
     ELSE IdFail(t)
  /\ UNCHANGED idOthers

\* fs::rename(identity.tmp, identity.json): fails when identity.tmp is gone.
IdRename(t, ok) ==
  /\ idPc[t] = "rename"
  /\ IF ok /\ idTmp # 0
     THEN /\ idPc' = [idPc EXCEPT ![t] = "chmod"]
          /\ idFinal' = idTmp
          /\ idTmp' = 0
          /\ idInodes' = Collect(idInodes, idFinal', idTmp', idFd)
          /\ UNCHANGED <<idMem, idKeys, idFd, idResult, idUserId, idModified>>
     ELSE IdFail(t)
  /\ UNCHANGED idOthers

\* fs::metadata(path) and fs::set_permissions(path, 0o600).
IdSetPermissions(t, ok) ==
  /\ idPc[t] = "chmod"
  /\ IF ok
     THEN /\ idPc' = [idPc EXCEPT ![t] = "store"]
          /\ idInodes' = [idInodes EXCEPT ![idFinal].mode = Mode0600]
          /\ UNCHANGED <<idFinal, idTmp, idMem, idKeys, idFd, idResult, idUserId,
                         idModified>>
     ELSE IdFail(t)
  /\ UNCHANGED idOthers

\* init_identity: *IDENTITY.lock() = Some(id), and 0 is returned.
IdStore(t) ==
  /\ idPc[t] = "store"
  /\ idMem' = idKeys[t]
  /\ idPc' = [idPc EXCEPT ![t] = "idle"]
  /\ idKeys' = [idKeys EXCEPT ![t] = NoKeys]
  /\ idResult' = 0
  /\ UNCHANGED <<idFinal, idTmp, idInodes, idFd, idUserId, idModified>>
  /\ UNCHANGED idOthers

\* get_user_id with an identity in memory: hex of its user_id.
IdGetUserId ==
  /\ idMem # NoKeys
  /\ idUserId' = HexEncode(IdentityUserId(idMem))
  /\ UNCHANGED <<idFinal, idTmp, idInodes, idMem, idPc, idKeys, idFd, idResult,
                 idModified>>
  /\ UNCHANGED idOthers

\* The process ends, by a crash or otherwise, and is started again: memory
\* and open files are gone, the files stay.
IdRestart ==
  /\ idMem' = NoKeys
  /\ idPc' = [t \in Threads |-> "idle"]
  /\ idKeys' = [t \in Threads |-> NoKeys]
  /\ idFd' = [t \in Threads |-> 0]
  /\ idInodes' = Collect(idInodes, idFinal, idTmp, idFd')
  /\ idResult' = 1
  /\ UNCHANGED <<idFinal, idTmp, idUserId, idModified>>
  /\ UNCHANGED idOthers

\* identity.json is damaged from outside the core while no call runs: its
\* text is cut after the second token.
IdCorruptFile ==
  /\ idFinal # 0
  /\ \A t \in Threads : idPc[t] = "idle"
  /\ ~idModified
  /\ idModified' = TRUE
  /\ idInodes' = [idInodes EXCEPT ![idFinal].content =
                    SubSeq(@, 1, IF Len(@) < 2 THEN Len(@) ELSE 2)]
  /\ UNCHANGED <<idFinal, idTmp, idMem, idPc, idKeys, idFd, idResult, idUserId>>
  /\ UNCHANGED idOthers

\* The steps of the host threads in ts.
IdentitySteps(ts) ==
  \/ \E t \in ts, generated \in IdentitySecrets : IdLoadOrGenerate(t, generated)
  \/ \E t \in ts, ok \in BOOLEAN : IdLoadFromStorage(t, ok)
  \/ \E t \in ts, ok \in BOOLEAN : IdCreateDirAll(t, ok)
  \/ \E t \in ts, ok \in BOOLEAN, mode \in CreateModes : IdCreateTmp(t, ok, mode)
  \/ \E t \in ts, ok \in BOOLEAN : IdWriteAll(t, ok)
  \/ \E t \in ts, ok \in BOOLEAN : IdSyncAll(t, ok)
  \/ \E t \in ts, ok \in BOOLEAN : IdRename(t, ok)
  \/ \E t \in ts, ok \in BOOLEAN : IdSetPermissions(t, ok)
  \/ \E t \in ts : IdStore(t)
  \/ IdGetUserId
  \/ IdRestart
  \/ IdCorruptFile

\* Any threads of the host call init_identity; and one thread alone does.
IdentityNext == IdentitySteps(Threads)
IdentitySeqNext == IdentitySteps({1})

(***************************************************************************)
(* Mentions: extract_mentions (mentions.rs).  A text is the sequence of    *)
(* its characters; "e'" stands for a letter outside ASCII, such as U+00E9, *)
(* and "nbsp" for U+00A0, which is Unicode white space and not ASCII.      *)
(***************************************************************************)
Characters == {"@", "a", "b", "e'", ",", " ", "nbsp"}

\* char::is_whitespace, as str::split_whitespace uses it, and
\* char::is_alphanumeric: both follow the Unicode properties.
IsWhitespace(ch) == ch \in {" ", "nbsp"}
IsAlphanumeric(ch) == ch \in {"a", "b", "e'"}

\* The characters the take_while of extract_mentions keeps.
NicknameChars == {ch \in Characters \cup {"_", "-"} : IsAlphanumeric(ch) \/ ch \in {"_", "-"}}

\* text.split_whitespace() with the characters of ws as white space: the
\* non-empty runs of other characters, in order.
RECURSIVE SplitOn(_, _, _, _)
SplitOn(ws, text, i, token) ==
  IF i > Len(text)
  THEN IF token = << >> THEN << >> ELSE <<token>>
  ELSE IF text[i] \in ws
       THEN (IF token = << >> THEN << >> ELSE <<token>>) \o SplitOn(ws, text, i + 1, << >>)
       ELSE SplitOn(ws, text, i + 1, Append(token, text[i]))

\* chars().take_while(...) with the characters of keep.
RECURSIVE TakeWhileIn(_, _)
TakeWhileIn(keep, str) ==
  IF str = << >> \/ Head(str) \notin keep
  THEN << >>
  ELSE <<Head(str)>> \o TakeWhileIn(keep, Tail(str))

\* by_nick: the user_id inserted last under a nickname, 0 when there is none.
RECURSIVE ByNick(_, _, _)
ByNick(known, nick, i) ==
  IF i = 0 THEN 0
  ELSE IF known[i].nickname = nick THEN known[i].user_id
       ELSE ByNick(known, nick, i - 1)

\* The loop over the tokens, with the mentions pushed and the user ids seen.
RECURSIVE MentionLoop(_, _, _, _, _, _)
MentionLoop(keep, tokens, known, i, mentions, seenIds) ==
  IF i > Len(tokens) THEN mentions
  ELSE IF Head(tokens[i]) # "@"
       THEN MentionLoop(keep, tokens, known, i + 1, mentions, seenIds)
       ELSE LET nick == TakeWhileIn(keep, Tail(tokens[i]))
                user_id == ByNick(known, nick, Len(known))
            IN  IF nick = << >> \/ user_id = 0 \/ user_id \in seenIds
                THEN MentionLoop(keep, tokens, known, i + 1, mentions, seenIds)
                ELSE MentionLoop(keep, tokens, known, i + 1,
                                 Append(mentions, [user_id |-> user_id, nickname |-> nick]),
                                 seenIds \cup {user_id})

ExtractMentions(text, known) ==
  IF known = << >>
  THEN << >>
  ELSE MentionLoop(NicknameChars, SplitOn({ch \in Characters : IsWhitespace(ch)}, text, 1, << >>),
                   known, 1, << >>, {})

MnInit == mnLast = [op |-> "none", text |-> << >>, friends |-> << >>, mentions |-> << >>]

\* extract_mentions_from_text, called by the host on a draft each time it
\* has grown by a character, with the friend list it chose for the draft.
MnExtractMentions(text, known) ==
  /\ Len(mnLast.text) < MaxTextLen
  /\ mnLast.text # << >> => known = mnLast.friends
  /\ mnLast' = [op |-> "extract_mentions", text |-> text, friends |-> known,
                mentions |-> ExtractMentions(text, known)]
  /\ UNCHANGED mnOthers

\* The friend lists a host passes: none, one friend, two friends, one friend under two nicknames,
\* and a friend whose nickname ends with a letter outside ASCII.
FriendLists ==
  {<< >>,
   <<[user_id |-> 1, nickname |-> <<"a">>]>>,
   <<[user_id |-> 1, nickname |-> <<"a">>], [user_id |-> 2, nickname |-> <<"b">>]>>,
   <<[user_id |-> 1, nickname |-> <<"a">>], [user_id |-> 1, nickname |-> <<"b">>]>>,
   <<[user_id |-> 1, nickname |-> <<"a", "e'">>]>>}

MentionsNext ==
  \E ch \in Characters, known \in FriendLists :
    MnExtractMentions(Append(mnLast.text, ch), known)

(***************************************************************************)
(* A mesh of devices, each running Router::route (transport.rs) on what    *)
(* its radio receives; a send on the transport towards a neighbour puts a  *)
(* copy in flight, and the neighbour receives it at any later time.        *)
(***************************************************************************)
Nodes == 1..NumNodes

Topologies == SUBSET {e \in Nodes \X Nodes : e[1] # e[2]}

FloodedId == <<0, 0, 0, 1>>

MsInit ==
  /\ msEdges = {}
  /\ msSeen = [n \in Nodes |-> {}]
  /\ msInFlight = {}
  /\ msOnNew = [n \in Nodes |-> 0]
  /\ msHandled = [n \in Nodes |-> 0]
  /\ msOrigin = [node |-> 0, ttl |-> 0]

\* router.route(packet, on_new) on device n, whose transport i leads to
\* device i and is available when the link is there; hops is the number of
\* links the packet has crossed.  The copies of the Ok sends are in flight.
MsRoute(n, packet, hops, edges, sendOk, inFlight) ==
  LET avail == [i \in Nodes |-> <<n, i>> \in edges]
      r == Route(msSeen[n], packet, avail, sendOk)
      sends == SendCalls(r.events)
      copies == {[from |-> n, to |-> sends[k].transport, packet |-> sends[k].packet,
                  hops |-> hops + 1, cause |-> packet.ttl] :
                   k \in {j \in 1..Len(sends) : sends[j].ok}}
  IN  /\ msSeen' = [msSeen EXCEPT ![n] = r.seen]
      /\ msOnNew' = [msOnNew EXCEPT ![n] = @ + Len(OnNewCalls(r.events))]
      /\ msHandled' = [msHandled EXCEPT ![n] = @ + 1]
      /\ msInFlight' = inFlight \cup copies

\* Device n originates the packet with ttl t (send_packet), in a mesh with
\* the links edges.
MsOriginate(edges, n, t, sendOk) ==
  /\ msOrigin.node = 0
  /\ msEdges' = edges
  /\ msOrigin' = [node |-> n, ttl |-> t]
  /\ MsRoute(n, Packet(FloodedId, <<0, 1>>, t, RtPayloadOf(<<0, 1>>)), 0, edges, sendOk,
             msInFlight)
  /\ UNCHANGED msOthers

\* The copy c arrives at its destination (ingest_packet).
MsDeliver(c, sendOk) ==
  /\ c \in msInFlight
  /\ MsRoute(c.to, c.packet, c.hops, msEdges, sendOk, msInFlight \ {c})
  /\ UNCHANGED <<msEdges, msOrigin>>
  /\ UNCHANGED msOthers

\* A device sends on each of its links in one call only, so a send of the
\* origin that fails is a mesh without that link.
MeshNext ==
  \/ \E edges \in Topologies, n \in Nodes, t \in Ttls :
       MsOriginate(edges, n, t, [i \in Nodes |-> TRUE])
  \/ \E c \in msInFlight, sendOk \in [Nodes -> BOOLEAN] : MsDeliver(c, sendOk)

Init ==
  RtInit /\ CrInit /\ StInit /\ CoreInit /\ LkInit /\ CyInit /\ FrInit /\ IdInit /\ MnInit /\ MsInit

RouterSpec == Init /\ [][RtNext]_vars

ConcurrentRouteSpec == Init /\ [][CrNext]_vars

StorageSpec == Init /\ [][StNext]_vars

PacketSpec == Init /\ [][PacketNext]_vars

DmSpec == Init /\ [][DmNext]_vars

LockSpec == Init /\ [][LockNext]_vars

CryptoSpec == Init /\ [][CryptoNext]_vars

DmRouterSpec == Init /\ [][DmRouterNext]_vars

FriendsSpec == Init /\ [][FriendsNext]_vars

IdentitySpec == Init /\ [][IdentityNext]_vars

IdentitySeqSpec == Init /\ [][IdentitySeqNext]_vars

MentionsSpec == Init /\ [][MentionsNext]_vars

PeerDmSpec == Init /\ [][PeerDmNext]_vars

RestartSpec == Init /\ [][RestartNext]_vars

\* Every copy in flight is received at some time.
MeshSpec ==
  Init /\ [][MeshNext]_vars
       /\ WF_vars(\E c \in msInFlight, sendOk \in [Nodes -> BOOLEAN] : MsDeliver(c, sendOk))

(***************************************************************************)
(* Router properties (RouterSpec).                                         *)
(***************************************************************************)
RtLastSends == SendCalls(rtLast.events)
RtLastAvailable == {i \in TransportIds : rtLast.avail[i]}

\* C1: over any sequence of route calls on one router, on_new has been
\* invoked exactly once for every packet_id presented so far (by the call
\* that presented it first) and never for another id; a call with a
\* packet_id presented before invokes no callback and sends to no transport.
C1_OnNewOncePerPacketId ==
  /\ \A id \in RandomIds :
       rtOnNewCount[id] = IF id \in rtPresented THEN 1 ELSE 0
  /\ rtLast.op = "route" =>
       IF rtLast.first
       THEN OnNewCalls(rtLast.events) = <<OnNewEvent(rtLast.packet)>>
       ELSE rtLast.events = <<>>

\* A repeated packet_id was routed with a positive ttl while a transport
\* was available.
C1_Witness ==
  /\ rtLast.op = "route"
  /\ ~rtLast.first
  /\ rtLast.packet.ttl > 0
  /\ RtLastAvailable # {}
  /\ rtOnNewCount[rtLast.packet.packet_id] = 1

\* C2: a novel packet routed with ttl = 0 fires on_new and is sent to no
\* transport; a novel packet routed with ttl = 1 is sent with ttl = 0 (to
\* every available transport).
C2_TtlExhaustion ==
  (rtLast.op = "route" /\ rtLast.first) =>
    /\ rtLast.packet.ttl = 0 =>
         /\ OnNewCalls(rtLast.events) = <<OnNewEvent(rtLast.packet)>>
         /\ RtLastSends = <<>>
    /\ rtLast.packet.ttl = 1 =>
         /\ \A k \in 1..Len(RtLastSends) : RtLastSends[k].packet.ttl = 0
         /\ \A i \in RtLastAvailable :
              \E k \in 1..Len(RtLastSends) : RtLastSends[k].transport = i

\* A novel packet with ttl = 0 was routed while every transport was available.
C2_Witness ==
  /\ rtLast.op = "route"
  /\ rtLast.first
  /\ rtLast.packet.ttl = 0
  /\ RtLastAvailable = TransportIds
  /\ rtOnNewCount[rtLast.packet.packet_id] = 1

\* C3: for a novel packet with ttl = t > 0, send is called exactly once on
\* every available transport and on no other, in list order, and every copy
\* sent has ttl = t - 1 (no wrap of the u8) and the packet_id, channel_id and
\* payload of the routed packet.
C3_ForwardToAvailable ==
  (rtLast.op = "route" /\ rtLast.first /\ rtLast.packet.ttl > 0) =>
    /\ Len(RtLastSends) = Cardinality(RtLastAvailable)
    /\ \A k \in 1..Len(RtLastSends) :
         /\ RtLastSends[k].transport \in RtLastAvailable
         /\ \A j \in 1..(k - 1) : RtLastSends[j].transport < RtLastSends[k].transport
         /\ RtLastSends[k].packet.ttl = rtLast.packet.ttl - 1
         /\ RtLastSends[k].packet.ttl \in 0..(U8 - 2)
         /\ RtLastSends[k].packet.packet_id = rtLast.packet.packet_id
         /\ RtLastSends[k].packet.channel_id = rtLast.packet.channel_id
         /\ RtLastSends[k].packet.payload = rtLast.packet.payload

\* A novel packet with ttl > 0 was routed while some transport was available
\* and some transport was not.
C3_Witness ==
  /\ rtLast.op = "route"
  /\ rtLast.first
  /\ rtLast.packet.ttl > 0
  /\ RtLastAvailable # {}
  /\ RtLastAvailable # TransportIds
  /\ Len(RtLastSends) > 0

\* C4: when a transport's send returns an error, every available transport
\* after it in the list is still sent the packet, and the packet_id stays in
\* the seen-set (no presented id ever leaves it, so a later route of that id
\* is dropped).
C4_SendFailureContinues ==
  /\ rtPresented \subseteq rtSeen
  /\ (rtLast.op = "route" /\ rtLast.first /\ rtLast.packet.ttl > 0) =>
       \A i \in RtLastAvailable :
         ~rtLast.sendOk[i] =>
           /\ rtLast.packet.packet_id \in rtSeen
           /\ \A j \in RtLastAvailable :
                j > i => \E k \in 1..Len(RtLastSends) : RtLastSends[k].transport = j

\* The first transport failed on a novel packet and a later transport was
\* available and was sent the packet.
C4_Witness ==
  /\ rtLast.op = "route"
  /\ rtLast.first
  /\ rtLast.packet.ttl > 0
  /\ 1 \in RtLastAvailable
  /\ ~rtLast.sendOk[1]
  /\ \E k \in 1..Len(RtLastSends) : RtLastSends[k].transport > 1

(***************************************************************************)
(* Concurrent route (ConcurrentRouteSpec).                                 *)
(***************************************************************************)
CrCallers(id) == {t \in Threads : crPc[t] # "idle" /\ crPacket[t].packet_id = id}
CrFired(id) == {t \in CrCallers(id) : crOnNew[t] > 0}

\* C10: of the concurrent route calls that carry the same packet_id, at
\* most one invokes on_new, each call invokes it at most once, a call that
\* did not invoke it sends nothing, and once all of them have returned
\* exactly one has invoked it.
C10_ConcurrentDedup ==
  \A id \in RandomIds :
    /\ Cardinality(CrFired(id)) <= 1
    /\ \A t \in CrCallers(id) :
         /\ crOnNew[t] <= 1
         /\ crOnNew[t] = 0 => crSends[t] = 0
    /\ (CrCallers(id) # {} /\ \A t \in CrCallers(id) : crPc[t] = "done")
         => Cardinality(CrFired(id)) = 1

\* Every thread routed the same packet_id, all have returned, and the one
\* that won forwarded the packet.
C10_Witness ==
  \E id \in RandomIds :
    /\ CrCallers(id) = Threads
    /\ \A t \in Threads : crPc[t] = "done"
    /\ \E t \in Threads : crOnNew[t] = 1 /\ crSends[t] > 0

(***************************************************************************)
(* Message log (StorageSpec).                                              *)
(***************************************************************************)
RowsOfId(id) == {r \in stRows : r.message_id = id}

\* C5: after any sequence of store_message calls the table holds exactly one
\* row for every message_id stored (and not deleted since), that row has the
\* fields of the first insertion whatever the later insertions carried, and
\* every store_message, repeated or not, returns Ok.
C5_StoreIdempotent ==
  /\ \A id \in RandomIds :
       RowsOfId(id) = IF stFirst[id] = NoRow THEN {} ELSE {stFirst[id]}
  /\ stLast.op = "store_message" => stLast.ok

\* A message_id was stored again with another channel_id and the row kept
\* its first channel.
C5_Witness ==
  /\ stLast.op = "store_message"
  /\ stLast.ok
  /\ \E r \in RowsOfId(stLast.message_id) : r.channel_id # stLast.channel_id

StFetchedFrom == ChannelRows(stRows, stLast.channel_id)
StExpectedLen ==
  LET rest == Cardinality(StFetchedFrom) - stLast.offset
  IN  IF rest <= 0 THEN 0 ELSE IF stLast.limit < rest THEN stLast.limit ELSE rest

\* C7: fetch_messages(channel_id, limit, offset) returns only rows of that
\* channel, each at most once, in non-decreasing timestamp order; it returns
\* min(limit, rows past the offset) rows, and the row at place i of the
\* result can stand at place offset + i of the channel's rows sorted by
\* timestamp.
C7_FetchWindow ==
  stLast.op = "fetch_messages" =>
    LET res == stLast.result
    IN  /\ Len(res) = StExpectedLen
        /\ \A i \in 1..Len(res) :
             /\ res[i].channel_id = stLast.channel_id
             /\ res[i] \in stRows
             /\ \A j \in 1..(i - 1) :
                  res[j] # res[i] /\ res[j].timestamp <= res[i].timestamp
             /\ Cardinality({r \in StFetchedFrom : r.timestamp < res[i].timestamp})
                  <= stLast.offset + i - 1
             /\ Cardinality({r \in StFetchedFrom : r.timestamp <= res[i].timestamp})
                  >= stLast.offset + i

\* A channel with rows of different timestamps was fetched with limit 1
\* past its first row.
C7_Witness ==
  /\ stLast.op = "fetch_messages"
  /\ stLast.offset = 1
  /\ stLast.limit = 1
  /\ Len(stLast.result) = 1
  /\ \E r \in StFetchedFrom : r.timestamp < stLast.result[1].timestamp

\* C32: within one Router::route call for a novel packet, on_new is called
\* and has returned before the first Transport::send, and the packet on_new
\* is given carries the ttl as received, not the decremented one.
C32_OnNewBeforeSends ==
  (rtLast.op = "route" /\ rtLast.events # <<>>) =>
    /\ rtLast.events[1] = OnNewEvent(rtLast.packet)
    /\ \A i \in 2..Len(rtLast.events) :
         /\ rtLast.events[i].kind = "send"
         /\ rtLast.events[i].packet.ttl = rtLast.packet.ttl - 1

\* A novel packet with ttl left that was sent on a transport.
C32_Witness ==
  /\ rtLast.op = "route"
  /\ rtLast.packet.ttl > 0
  /\ Len(rtLast.events) >= 2
  /\ rtLast.events[1].kind = "on_new"
  /\ rtLast.events[2].kind = "send"

\* C33: in a mesh of any topology whose devices each run Router::route and
\* receive the forwarded copies asynchronously, the flooding of a packet
\* originated with ttl t terminates: each device fires on_new for it at most
\* once, every copy on the wire has a ttl strictly lower than the copy that
\* caused it, no copy crosses more than t links, and eventually no copy is
\* in flight.
C33_FloodingTerminates ==
  /\ [](\A n \in Nodes : msOnNew[n] <= 1)
  /\ [](\A c \in msInFlight :
          /\ c.packet.ttl < c.cause
          /\ c.hops <= msOrigin.ttl
          /\ c.hops + c.packet.ttl = msOrigin.ttl)
  /\ (msOrigin.node # 0) ~> (msInFlight = {})

\* The flood is over, it reached every device, the last of them over two
\* links, and a device dropped a copy it had seen.
C33_Witness ==
  /\ msOrigin.node # 0
  /\ msOrigin.ttl = MaxTtl
  /\ msInFlight = {}
  /\ \A n \in Nodes : msOnNew[n] = 1
  /\ <<msOrigin.node, 1 + (msOrigin.node % NumNodes)>> \notin msEdges
  /\ \E n \in Nodes : msHandled[n] >= 2

(***************************************************************************)
(* Packets and the store.                                                  *)
(***************************************************************************)
\* C6: whenever send_packet or ingest_packet has accepted a packet as novel
\* (its packet_id entered the seen-set), the store holds, once the call has
\* returned, a row with message_id = packet_id, the packet's channel_id,
\* ciphertext = payload and the ttl the packet had before the decrement.
C6_NovelPacketStored ==
  (last.op \in {"send_packet", "ingest_packet"} /\ last.novel) =>
    \E r \in messages :
      /\ r.message_id = last.packet.packet_id
      /\ r.channel_id = last.packet.channel_id
      /\ r.ciphertext = last.packet.payload
      /\ r.ttl = last.packet.ttl

\* C31: after a process restart (the seen-set empty again, mesh.db kept),
\* ingest_packet of a packet whose packet_id is already stored, and which
\* the new router therefore takes as novel, leaves the message store as it
\* was: the one row of that id keeps its channel_id, ciphertext, timestamp
\* and ttl.
C31_ReingestAfterRestart ==
  [][\A id \in RepeatedIds, ch \in HostChannels, ttl \in Ttls, now \in Times :
       (HasMessage(messages, id) /\ id \notin seen /\ IngestPacket(id, ch, ttl, now))
         => messages' = messages]_vars

\* A packet taken as novel by a router that has a store, while the row of
\* its id holds another ttl or channel: the row is from before the restart.
C31_Witness ==
  /\ last.op = "ingest_packet" /\ last.ok /\ last.novel /\ storageInit
  /\ \E r \in messages :
       /\ r.message_id = last.packet.packet_id
       /\ r.ttl # last.packet.ttl \/ r.channel_id # last.packet.channel_id
  /\ \A r1, r2 \in messages : r1.message_id = r2.message_id => r1 = r2

\* C11: within one process lifetime the seen-set of the router only grows
\* over init_router_with_loopback, send_packet, ingest_packet and
\* drain_loopback_packets, so that a packet_id accepted as novel once is
\* never accepted as novel again.
C11_SeenOnlyGrows == [][seen \subseteq seen']_vars


(***************************************************************************)
(* Clearing a conversation.                                                *)
(***************************************************************************)
OtherChannelRows(rows, ch) == {r \in rows : r.channel_id # ch}

\* C8: a clear_dm_messages(peer) that returns 0 leaves no row of the DM
\* channel of peer, so that get_dm_messages(peer, limit, 0) returns the empty
\* list for every limit, and leaves the rows of every other channel as they
\* were.
C8_ClearDmMessages ==
  [][\A peer \in PeerIds :
       (last'.op = "clear_dm_messages" /\ last'.peer = peer /\ last'.result = 0) =>
         /\ ChannelRows(messages', DmChannelOf(peer)') = {}
         /\ \A limit \in PageArgs :
              GetDmMessagesResults(peer, limit, 0)' = {[ok |-> TRUE, messages |-> <<>>]}
         /\ OtherChannelRows(messages', DmChannelOf(peer)')
              = OtherChannelRows(messages, DmChannelOf(peer)')]_vars

C8_Witness ==
  /\ last.op = "clear_dm_messages"
  /\ last.result = 0
  /\ last.cleared > 0
  /\ messages # {}
  /\ ChannelRows(messages, DmChannelOf(last.peer)) = {}

(***************************************************************************)
(* Lock order.                                                             *)
(***************************************************************************)
LockRank(l) ==
  CASE l = "IDENTITY" -> 1 [] l = "FRIENDS" -> 2 [] l = "STORAGE" -> 3
    [] l = "ROUTER" -> 4 [] OTHER -> 0

\* C9: no thread acquires a singleton lock that is earlier in the order
\* Identity, FriendManager, Storage, Router while it holds one that is
\* later: the locks of the order that a thread holds were acquired in
\* ascending order.
C9_LockOrder ==
  \A t \in Threads :
    \A i, j \in 1..Len(lkHeld[t]) :
      (i < j /\ LockRank(lkHeld[t][i]) > 0 /\ LockRank(lkHeld[t][j]) > 0)
        => LockRank(lkHeld[t][i]) < LockRank(lkHeld[t][j])

\* The thread whose mutex t is blocked on (NoThread: t is not blocked).
LkWaitsFor(t) ==
  IF LkRunning(t) /\ LkStep(t).kind = "acq" THEN lkOwner[LkStep(t).lock] ELSE NoThread

\* The thread reached from t over k edges of the waits-for relation.
RECURSIVE LkWaitsChain(_, _)
LkWaitsChain(t, k) ==
  IF t = NoThread \/ k = 0 THEN t ELSE LkWaitsChain(LkWaitsFor(t), k - 1)

C35_RouterForwardsToLoopback ==
  (lkCreated > 0 /\ \A t \in Threads : lkOp[t] # "init_router_with_loopback") =>
    /\ lkInstance.ROUTER # NoInstance
    /\ lkInstance.ROUTER = lkInstance.LOOPBACK

(***************************************************************************)
(* dm_crypto.rs (CryptoSpec).                                              *)
(***************************************************************************)
\* C12: derive_dm_channel_id(A, B) = derive_dm_channel_id(B, A) for all keys
\* A and B, A = B included.
C12_ChannelIdCommutes ==
  cyLast.op = "derive_dm_channel_id" => cyLast.ab = cyLast.ba

\* The keys were given in descending order.
C12_Witness ==
  /\ cyLast.op = "derive_dm_channel_id"
  /\ cyLast.a > cyLast.b
  /\ cyLast.ab = DeriveDmChannelId(cyLast.b, cyLast.a)

\* C13: with valid X25519 key pairs on both sides, a plaintext encrypted on
\* the session of create_test_session(is_initiator = true) decrypts on the
\* session of create_test_session(is_initiator = false) to the same bytes:
\* test_dm_encrypt_decrypt reports OK.
C13_SessionRoundTrip ==
  (cyLast.op = "test_dm_encrypt_decrypt" /\ cyLast.valid) => cyLast.result = "OK"

C14_PeerDmDelivered ==
  (/\ last.op = "send_dm_message"
   /\ IDENTITY # NoKey
   /\ last.peer # UserIdOf(IDENTITY)
   /\ friendsInit
   /\ GetFriend(last.peer) # NoKey
   /\ storageInit) => last.ok

SelfChannel == DeriveDmChannelId(IDENTITY, IDENTITY)

\* The message get_dm_messages shows for the self-message last sent.
LastSentShown ==
  [message_id |-> last.message_id, plaintext |-> last.plaintext,
   timestamp |-> last.now, is_sent |-> TRUE]

Shows(result, message) ==
  result.ok /\ \E i \in 1..Len(result.messages) : result.messages[i] = message

\* C15 as stated: after send_dm_message(own_user_id, p) has succeeded,
\* get_dm_messages(own_user_id, limit, 0) contains, for every limit, a
\* message with that message_id, plaintext p and is_sent = true.
C15_SelfMessageShownAnyLimit ==
  (last.op = "send_dm_message" /\ last.ok /\ last.peer = UserIdOf(IDENTITY)) =>
    \A limit \in PageArgs :
      \A result \in GetDmMessagesResults(last.peer, limit, 0) : Shows(result, LastSentShown)

\* C15, amended: after send_dm_message(own_user_id, p) has succeeded,
\* get_dm_messages(own_user_id, limit, 0) with a limit of at least the
\* number of rows of the self channel contains a message with that
\* message_id, plaintext p and is_sent = true, whether or not the friend
\* registry is initialised.
C15_SelfMessageShown ==
  (last.op = "send_dm_message" /\ last.ok /\ last.peer = UserIdOf(IDENTITY)) =>
    \A limit \in PageArgs :
      limit >= Cardinality(ChannelRows(messages, SelfChannel)) =>
        \A result \in GetDmMessagesResults(last.peer, limit, 0) : Shows(result, LastSentShown)

\* A self-message was sent, with FRIENDS never initialised, into a channel
\* that already held another row.
C15_Witness ==
  /\ last.op = "send_dm_message"
  /\ last.ok
  /\ last.peer = UserIdOf(IDENTITY)
  /\ ~friendsInit
  /\ Cardinality(ChannelRows(messages, SelfChannel)) > 1
  /\ \E result \in GetDmMessagesResults(last.peer, MaxRows, 0) : Shows(result, LastSentShown)

\* The places of the fetched rows that get_dm_messages can decrypt to valid
\* UTF-8.
DecryptablePlaces ==
  {i \in 1..Len(last.fetched) : DecryptRow(last.peer, last.fetched[i]) # <<>>}

\* C17: get_dm_messages does not fail as a whole because of a row it cannot
\* decrypt: with the identity, the peer and the store present it returns a
\* list, and the list holds, in fetch order, the message of every fetched
\* row that decrypts to valid UTF-8 and nothing for the other rows.
C17_UndecryptableRowsSkipped ==
  last.op = "get_dm_messages" =>
    /\ last.ok <=> (IDENTITY # NoKey /\ PeerResolved(last.peer) /\ storageInit)
    /\ Len(last.messages) = Cardinality(DecryptablePlaces)
    /\ \A k \in 1..Len(last.messages) :
         \E i \in DecryptablePlaces :
           /\ Cardinality({j \in DecryptablePlaces : j <= i}) = k
           /\ <<last.messages[k]>> = DecryptRow(last.peer, last.fetched[i])

\* A row that cannot be decrypted was fetched before one that can.
C17_Witness ==
  /\ last.op = "get_dm_messages"
  /\ last.ok
  /\ \E i \in 1..Len(last.fetched) :
       /\ i \notin DecryptablePlaces
       /\ \E j \in DecryptablePlaces : i < j
  /\ Len(last.messages) > 0

\* The row send_dm_message stores for the message last sent.
LastSentRow ==
  LET ch == DeriveDmChannelId(IDENTITY,
                              IF last.peer = UserIdOf(IDENTITY) THEN IDENTITY
                              ELSE GetFriend(last.peer))
  IN  MessageRow(last.message_id, ch,
                 EncryptSelfMessage(ch, last.message_id, last.plaintext), last.now, DefaultTtl)

\* C19: send_dm_message either returns a message_id, and the store then
\* holds exactly one row with that message_id: the one with the DM channel
\* of the peer, the ciphertext of the plaintext, the timestamp of the call
\* and ttl 10, all other rows being as before; or it returns null and
\* leaves the store unchanged.  It returns null when the identity or the
\* store is not initialised or the peer is neither the own user_id nor a
\* registered friend.
C19_SendStoresOneRowOrNothing ==
  [][last'.op = "send_dm_message" =>
       IF last'.ok
       THEN /\ {r \in messages' : r.message_id = last'.message_id} = {LastSentRow'}
            /\ messages' \ {LastSentRow'} = messages \ {LastSentRow'}
            /\ IDENTITY # NoKey /\ PeerResolved(last'.peer) /\ storageInit
       ELSE messages' = messages]_vars

\* The second self-message of a conversation was stored next to the first.
C19_Witness ==
  /\ last.op = "send_dm_message"
  /\ last.ok
  /\ LastSentRow \in messages
  /\ \E r \in messages : r.channel_id = LastSentRow.channel_id /\ r # LastSentRow

\* C38: every successful send_dm_message call produces its own stored
\* message: the message_id it returns is the id of no row stored before, and
\* the store has one row more after the call, also when the same plaintext
\* goes to the same peer again within the same second.
C38_EverySendItsOwnRow ==
  [][\A uid \in PeerIds, pt \in Plaintexts, now \in Times :
       (SendDmMessage(uid, pt, now) /\ last'.ok)
         => /\ ~HasMessage(messages, last'.message_id)
            /\ Cardinality(messages') = Cardinality(messages) + 1]_vars

\* C39: in the list get_dm_messages returns for the channel of a friend, a
\* message the local device sent with send_dm_message (its row holds the ttl
\* of a message made here) has is_sent true, and a message that arrived from
\* the friend through ingest_packet has is_sent false; the list holds the
\* messages of the fetched rows and no other.
C39_IsSentTellsDirection ==
  (last.op = "get_dm_messages" /\ last.ok /\ last.peer # UserIdOf(IDENTITY)) =>
    /\ \A i \in 1..Len(last.fetched) :
         \E k \in 1..Len(last.messages) :
           /\ last.messages[k].message_id = last.fetched[i].message_id
           /\ last.messages[k].is_sent = (last.fetched[i].ttl = DefaultTtl)
    /\ \A k \in 1..Len(last.messages) :
         \E i \in 1..Len(last.fetched) :
           last.fetched[i].message_id = last.messages[k].message_id

\* C18: a DM sent with send_dm_message is, once stored, wrapped as a packet
\* (packet_id = message_id, the DM channel_id, payload = ciphertext) and
\* handed to the router, so that the transports receive it: with the router
\* initialised, the loopback transport holds that packet when the call
\* returns.
C18_SentDmForwarded ==
  (last.op = "send_dm_message" /\ last.ok /\ routerInit) =>
    \E i \in 1..Len(loopback) :
      /\ loopback[i].packet_id = last.message_id
      /\ loopback[i].channel_id = LastSentRow.channel_id
      /\ loopback[i].payload = LastSentRow.ciphertext

\* C20: after any sequence of add_friend, import_friend_from_json,
\* update_friend_nickname, update_friend_profile and remove_friend from an
\* empty registry, every friend record has user_id = SHA256(ed25519_public)
\* and is filed under the key hex(user_id).
C20_FriendRecordsKeyed ==
  \A e \in frFriends :
    /\ e.value.user_id = UserIdOf(e.value.ed25519_public)
    /\ e.key = HexEncode(e.value.user_id)

\* Two friends are registered, one of them with a key that differs from its
\* user_id, and a profile update has just changed a record.
C20_Witness ==
  /\ frLast.op = "update_friend_profile" /\ frLast.result = 0
  /\ Cardinality(frFriends) >= 2
  /\ \E e \in frFriends :
       /\ e.value.user_id = frLast.id
       /\ e.value.user_id # e.value.ed25519_public
       /\ e.value.notes = 1

NicknameHeldBy(e, nickname) == EqIgnoreAsciiCase(e.value.nickname, nickname)

Rejected(r) == ~r.ok /\ r.friends = frFriends

RenamedTo(r, e, nickname) ==
  /\ r.ok
  /\ \E f \in r.friends : f.key = e.key /\ f.value.nickname = nickname
  /\ {f \in r.friends : f.key # e.key} = {f \in frFriends : f.key # e.key}

RecordsOf(map, user_id) == {e \in map : e.value.user_id = user_id}

C37_ErrorLeavesRegistry ==
  [][(frLast'.op \in {"add_friend", "update_friend_nickname", "update_friend_profile",
                       "remove_friend"}
      /\ frLast'.result = -1)
       => frFriends' = frFriends]_vars

\* C23: every friend record in the registry has a non-empty nickname, after
\* any sequence of add_friend, import_friend_from_json,
\* update_friend_nickname and update_friend_profile.
C23_NicknamesNonEmpty ==
  \A e \in frFriends : e.value.nickname[1] # 0

\* C24: import_friend_from_json accepts a payload only if both its user_id
\* and its ed25519_public are hexadecimal strings of the length of an
\* identifier; any other payload is rejected and adds no friend (the save of
\* friends.json succeeding, so that no other error is in play).
C24_ImportValidatesBothFields ==
  [][\A json \in FriendJsons, nickname \in NicknameInputs :
       (/\ frLast'.op = "import_friend_from_json"
        /\ ~(json.valid /\ IsId(json.user_id) /\ IsId(json.ed25519_public))
        /\ FrImportFriendFromJson(json, nickname, TRUE)) =>
         (frLast'.result = -1 /\ frFriends' = frFriends)]_vars

\* C25: with one thread calling init_identity and identity.json not changed
\* from outside, the keys a call is about to store, generated or loaded,
\* are the two secrets identity.json parses to; so are the keys in memory;
\* and the user_id of the identity in memory is the one get_user_id gave
\* before, in this run of the process or in an earlier one.
IdentityOnDisk == IdParse(idInodes[idFinal].content)

C25_IdentityRoundTrip ==
  (~idModified /\ idFinal # 0) =>
    /\ \A t \in Threads : idPc[t] = "store" => idKeys[t] = IdentityOnDisk
    /\ idMem # NoKeys => idMem = IdentityOnDisk
    /\ (idMem # NoKeys /\ idUserId # << >>) =>
         idUserId = HexEncode(UserIdOf(EdPublicOf(idMem[1])))

\* A process started again has loaded the identity a previous run generated,
\* saved and showed through get_user_id, and is about to store it.
C25_Witness ==
  /\ ~idModified /\ idFinal # 0
  /\ idUserId # << >>
  /\ idMem = NoKeys
  /\ idPc[1] = "store"
  /\ idKeys[1][1] # idKeys[1][2]

\* C26: a call that finds identity.json and cannot read or parse it returns
\* -1 without generating keys, leaves the file and IDENTITY as they were;
\* a call that finds identity.json never goes on to generate or to write.
IsWholeObject(data) ==
  /\ Len(data) = 5
  /\ data[1] = -1 /\ data[3] = -2 /\ data[5] = -3
  /\ data[2] > 0 /\ data[4] > 0

C26_CorruptFileIsAnError ==
  [][\A t \in Threads :
       (idPc[t] = "read" /\ idPc'[t] # "read" /\ ~IdRestart) =>
         \/ /\ IsWholeObject(idInodes[idFinal].content)
            /\ idPc'[t] = "store"
            /\ idInodes' = idInodes /\ idFinal' = idFinal /\ idMem' = idMem
         \/ /\ idPc'[t] = "idle" /\ idResult' = -1
            /\ idKeys'[t] = NoKeys
            /\ idFinal' = idFinal
            /\ idInodes'[idFinal] = idInodes[idFinal]
            /\ idMem' = idMem]_vars

\* identity.json has been damaged while an identity was in memory, and an
\* init_identity has since returned -1.
C26_Witness ==
  /\ idModified /\ idFinal # 0
  /\ ~IsWholeObject(idInodes[idFinal].content)
  /\ idResult = -1
  /\ idMem # NoKeys
  /\ \A t \in Threads : idPc[t] = "idle"

\* C27: a save is atomic: unless it was changed from outside, identity.json
\* is absent or holds the complete text of one save, never part of one,
\* whichever step a save fails at and wherever the process stops.
C27_SaveIsAtomic ==
  (~idModified /\ idFinal # 0) => IsWholeObject(idInodes[idFinal].content)

\* C28: in every state in which identity.json exists, between the steps of a
\* save and after a save that failed part-way included, its mode is 0600.
C28_IdentityFileMode ==
  idFinal # 0 => idInodes[idFinal].mode = Mode0600

\* C29: under any interleaving of init_identity calls, the user_id that
\* get_user_id returns never changes once it has returned one, in this
\* process or after a restart; and when a call has returned 0 and no call is
\* running, the identity in memory is the one identity.json holds.
C29_IdentityCreatedOnce ==
  [][~idModified' =>
       /\ idUserId # << >> => idUserId' = idUserId
       /\ (idResult' = 0 /\ \A t \in Threads : idPc'[t] = "idle") =>
            idMem' = IdentityOnDisk']_vars

\* C30: extract_mentions returns, in order of first occurrence, one
\* {user_id, nickname} for each token between ASCII white space that starts
\* with '@' and whose longest following run of characters of [A-Za-z0-9_-]
\* is the nickname of a friend, and nothing else; no user_id twice.
AsciiWhitespace == {" "}
AsciiNicknameChars == {"a", "b", "_", "-"}

C30_MentionsAsSpecified ==
  mnLast.op = "extract_mentions" =>
    mnLast.mentions =
      (IF mnLast.friends = << >> THEN << >>
       ELSE MentionLoop(AsciiNicknameChars, SplitOn(AsciiWhitespace, mnLast.text, 1, << >>),
                        mnLast.friends, 1, << >>, {}))

=============================================================================
